---- MODULE Spec2Model ----
(***************************************************************************)
(* Soulbound Signature backend: the payment-gated document lifecycle and   *)
(* the field-signing protocol.                                             *)
(*                                                                         *)
(* The five relations of the store are the state.  Every HTTP handler is a *)
(* sequence of steps, one per awaited store or collaborator call that can  *)
(* be observed by, or can observe, a concurrently running handler.  Reads  *)
(* of rows that no handler of the model rewrites (a recipient's package,   *)
(* a field's owner and type) are taken together with the next read, and an *)
(* audit insert, which no handler ever reads back, is taken together with  *)
(* the store write it follows.                                             *)
(***************************************************************************)
EXTENDS Integers, Sequences, FiniteSets, TLC

VARIABLES
    packages,     \* signature_packages: id -> row, for the ids that have a row
    recipients,   \* recipients: id -> row (a recipient's token is named by its id)
    fields,       \* signature_fields: id -> row
    signatures,   \* signatures: field_id -> the rows for that field, in insert order
    audit_logs,   \* audit_logs: package_id -> event type -> number of rows
    facilitator,  \* payment proof -> the facilitator calls made with it, in order
    req,          \* per worker: the request it is handling, its locals and its response
    nreq          \* number of requests started so far

vars == <<packages, recipients, fields, signatures, audit_logs, facilitator, req, nreq>>

NULL == "null"

\* Total number of requests a behaviour starts: signing and lifecycle requests on a
\* created document, and creation requests on an empty store.
MaxReq == 4
MaxCreate == 3

Procs == {1, 2}

\* Row ids are generated by the store; the model numbers the rows of a table 1, 2, ...
\* in insert order.  BadId is an id or token that names no row.
NewId(table) == Cardinality(DOMAIN table) + 1
BadId == 0

EventTypes == {"document_created", "document_distributed", "document_viewed",
               "field_signed", "signing_completed", "document_completed",
               "document_cancelled"}

----------------------------------------------------------------------------
(* db/schema.ts *)

\* A nullable text column holds NULL or a string; document_data holds NoData or
\* the pages of the PDF.
NoData == <<>>
OriginalPdf == <<"pdf">>

createPackage(pk, id, owner, tx, data, html) ==
    pk @@ (id :> [status |-> "draft", completed_at |-> NULL,
                  owner_wallet_address |-> owner, payment_tx_hash |-> tx,
                  document_data |-> data, document_html |-> html])

\* The UPDATE without the completed_at column.
updatePackageStatus_statusOnly(pk, id, status) ==
    IF id \in DOMAIN pk THEN [pk EXCEPT ![id].status = status] ELSE pk

\* One UPDATE sets status and completed_at together, whatever the row's status was.
updatePackageStatus(pk, id, status) ==
    IF id \in DOMAIN pk
    THEN [pk EXCEPT ![id].status = status,
                    ![id].completed_at = IF status = "completed" THEN "now" ELSE NULL]
    ELSE pk

updatePackageDocument(pk, id, data) ==
    IF id \in DOMAIN pk THEN [pk EXCEPT ![id].document_data = data] ELSE pk

createRecipient(rc, id, packageId, role) ==
    rc @@ (id :> [package_id |-> packageId, role |-> role, signing_status |-> "pending"])

updateRecipientStatus(rc, id, status) ==
    IF id \in DOMAIN rc THEN [rc EXCEPT ![id].signing_status = status] ELSE rc

createField(fl, id, packageId, recipientId, fieldType, required) ==
    fl @@ (id :> [package_id |-> packageId, recipient_id |-> recipientId,
                  field_type |-> fieldType, required |-> required,
                  value |-> NULL, inserted |-> FALSE])

RECURSIVE Ascending(_)
Ascending(ids) ==
    IF ids = {} THEN <<>>
    ELSE LET least == CHOOSE i \in ids : \A j \in ids : i <= j
         IN  <<least>> \o Ascending(ids \ {least})

\* ORDER BY page ASC, position_y ASC: a document's fields lie down the page in the
\* order they were inserted.
getFieldsByRecipient(recipientId) ==
    Ascending({f \in DOMAIN fields : fields[f].recipient_id = recipientId})

updateFieldValue(fl, id, value) ==
    IF id \in DOMAIN fl THEN [fl EXCEPT ![id].value = value, ![id].inserted = TRUE] ELSE fl

\* The reset of the value alone.
clearFieldValue_valueOnly(fl, id) == [fl EXCEPT ![id].value = NULL]

clearFieldValue(fl, id) ==
    IF id \in DOMAIN fl THEN [fl EXCEPT ![id].value = NULL, ![id].inserted = FALSE] ELSE fl

\* `x || null`: a missing or empty string is stored as NULL.
OrNull(x) == IF x = NULL \/ x = "" THEN NULL ELSE x

\* INSERT INTO signatures: the table has no uniqueness constraint on field_id.
SignaturesOf(sg, fieldId) == IF fieldId \in DOMAIN sg THEN sg[fieldId] ELSE <<>>

createSignature(sg, fieldId, recipientId, data) ==
    [f \in DOMAIN sg \cup {fieldId} |->
        IF f = fieldId
        THEN Append(SignaturesOf(sg, f),
                [recipient_id |-> recipientId,
                 signature_image |-> OrNull(data.signatureImage),
                 typed_signature |-> OrNull(data.typedSignature),
                 kyc_verified_name |-> OrNull(data.kycVerifiedName),
                 wallet_signature |-> OrNull(data.walletSignature)])
        ELSE sg[f]]

\* The lookup finding no row, whatever the table holds.
getSignatureByField_never(fieldId) == FALSE

\* SELECT * FROM signatures WHERE field_id = $1: is there a row?
getSignatureByField(fieldId) == Len(SignaturesOf(signatures, fieldId)) > 0

deleteSignatureByField(sg, fieldId) == [f \in DOMAIN sg \ {fieldId} |-> sg[f]]

AuditCount(al, packageId, eventType) ==
    IF packageId \in DOMAIN al THEN al[packageId][eventType] ELSE 0

createAuditLog(al, packageId, eventType) ==
    [d \in DOMAIN al \cup {packageId} |->
        [e \in EventTypes |->
            AuditCount(al, d, e) + (IF d = packageId /\ e = eventType THEN 1 ELSE 0)]]

Signers(rc, packageId) ==
    {r \in DOMAIN rc : rc[r].package_id = packageId /\ rc[r].role = "signer"}

\* The test without `total > 0`.
checkAllRecipientsSigned_noTotal(packageId) ==
    LET total == Cardinality(Signers(recipients, packageId))
        signed == Cardinality({r \in Signers(recipients, packageId) :
                                  recipients[r].signing_status = "signed"})
    IN  total = signed

\* total > 0 && total === signed, over the recipients with role = 'signer'.
checkAllRecipientsSigned(packageId) ==
    LET total == Cardinality(Signers(recipients, packageId))
        signed == Cardinality({r \in Signers(recipients, packageId) :
                                  recipients[r].signing_status = "signed"})
    IN  total > 0 /\ total = signed

----------------------------------------------------------------------------
(* Requests *)

\* The body of a sign request: every part is absent (NULL) or a string.
EmptyBody ==
    [kycNftAddress |-> NULL, verifiedName |-> NULL, walletSignature |-> NULL,
     walletAddress |-> NULL, documentHash |-> NULL, typedSignature |-> NULL,
     signatureImage |-> NULL, value |-> NULL]

BodyTyped == [EmptyBody EXCEPT !.typedSignature = "Alice A."]
BodyDrawn == [EmptyBody EXCEPT !.signatureImage = "data:image/png"]
BodyKyc == [EmptyBody EXCEPT !.kycNftAddress = "0xnft", !.verifiedName = "Alice"]
BodyValue == [EmptyBody EXCEPT !.value = "v"]

SignBodies == {EmptyBody, BodyTyped, BodyValue}

\* The body of a creation request.  content stands for the HTML by the <sig-field>
\* tags in it, in document order.
EmptyInput ==
    [title |-> "", format |-> NULL, content |-> NULL, pdfBase64 |-> NULL,
     recipients |-> <<>>]

Idle ==
    [op |-> "idle", pc |-> "idle", id |-> BadId, token |-> BadId, fieldId |-> BadId,
     fieldType |-> NULL, verification |-> [verified |-> FALSE, error |-> NULL],
     walletAddress |-> NULL, body |-> EmptyBody, todo |-> <<>>,
     unsignedRequired |-> <<>>, doc_data |-> NoData, fin |-> NULL,
     header |-> NULL, input |-> EmptyInput, proof |-> 0, payer |-> NULL,
     transactionHash |-> 0, paymentRequired |-> <<>>, reason |-> NULL,
     docRecipients |-> <<>>, newFields |-> <<>>, recipientId |-> BadId,
     signingLinks |-> <<>>, oracle |-> NULL,
     http |-> 0, error |-> NULL, documentCompleted |-> FALSE]

\* res.status(code).json(...); return.  The finished request keeps what it was
\* addressed to (path parameters, caller, payment header) and its response.
Respond(r, code, error) ==
    [Idle EXCEPT !.op = r.op, !.pc = "done", !.http = code, !.error = error,
                 !.id = r.id, !.token = r.token, !.fieldId = r.fieldId,
                 !.walletAddress = r.walletAddress, !.header = r.header,
                 !.unsignedRequired = r.unsignedRequired, !.proof = r.proof]

Truthy(x) == x # NULL /\ x # ""

Free(p) == req[p].pc \in {"idle", "done"}

\* Workers are interchangeable: a new request is taken by the lowest free one.
CanStart(p) == nreq < MaxReq /\ Free(p) /\ \A q \in Procs : q < p => ~Free(q)

\* A request arrives at worker p; its first step is the handler's first reads.
Arrive(p) == CanStart(p) /\ nreq' = nreq + 1

\* The ids and tokens requests name: the rows there are, and one that is unknown.
Docs == DOMAIN packages \cup {BadId}
Tokens == DOMAIN recipients \cup {BadId}
FieldIds == DOMAIN fields \cup {BadId}

----------------------------------------------------------------------------
(* routes/signing.ts: POST /:token/field/:fieldId *)

isSignatureField(fieldType) == fieldType \in {"signature", "free-signature", "initial"}

\* Signature fields are always required; others when field_meta.required === true.
\* isRequiredField without the look at field_meta.required.
isRequiredField_signatureOnly(field) == isSignatureField(field.field_type)

isRequiredField(field) == isSignatureField(field.field_type) \/ field.required

\* The branches tried with typed text first.
SignMode_typedFirst(body) ==
    IF Truthy(body.typedSignature) THEN "typed"
    ELSE IF Truthy(body.kycNftAddress) /\ Truthy(body.verifiedName) THEN "kyc"
    ELSE IF Truthy(body.walletSignature) /\ Truthy(body.walletAddress)
            /\ Truthy(body.documentHash) THEN "wallet"
    ELSE IF Truthy(body.signatureImage) THEN "drawn"
    ELSE "none"

\* The branch the handler takes for a signature field, in the order of its tests.
SignMode(body) ==
    IF Truthy(body.kycNftAddress) /\ Truthy(body.verifiedName) THEN "kyc"
    ELSE IF Truthy(body.walletSignature) /\ Truthy(body.walletAddress)
            /\ Truthy(body.documentHash) THEN "wallet"
    ELSE IF Truthy(body.typedSignature) THEN "typed"
    ELSE IF Truthy(body.signatureImage) THEN "drawn"
    ELSE "none"

NoSignatureDataError ==
    "Signature field requires walletSignature, signatureImage, typedSignature, or kycNftAddress+verifiedName"

NoSignatureData ==
    [signatureImage |-> NULL, typedSignature |-> NULL, kycVerifiedName |-> NULL,
     kycNftAddress |-> NULL, walletSignature |-> NULL, walletAddress |-> NULL,
     documentHash |-> NULL]

\* The data object handed to createSignature in each branch.
SignatureData(field, body) ==
    IF ~isSignatureField(field.field_type)
    THEN [NoSignatureData EXCEPT !.typedSignature = body.value]
    ELSE CASE SignMode(body) = "kyc" ->
                [NoSignatureData EXCEPT !.kycVerifiedName = body.verifiedName,
                                        !.kycNftAddress = body.kycNftAddress,
                                        !.walletSignature = OrNull(body.walletSignature),
                                        !.walletAddress = OrNull(body.walletAddress),
                                        !.documentHash = OrNull(body.documentHash)]
           [] SignMode(body) = "wallet" ->
                [NoSignatureData EXCEPT !.walletSignature = body.walletSignature,
                                        !.walletAddress = body.walletAddress,
                                        !.documentHash = body.documentHash]
           [] SignMode(body) = "typed" ->
                [NoSignatureData EXCEPT !.typedSignature = body.typedSignature]
           [] OTHER ->
                [NoSignatureData EXCEPT !.signatureImage = body.signatureImage]

\* The text handed to updateFieldValue in each branch.
FieldValue(field, body) ==
    IF ~isSignatureField(field.field_type) THEN body.value
    ELSE CASE SignMode(body) = "kyc" -> "[KYC: " \o body.verifiedName \o "]"
           [] SignMode(body) = "wallet" -> "[Wallet: 0xa11c...11ce]"
           [] SignMode(body) = "typed" -> body.typedSignature
           [] OTHER -> "[signature image]"


\* What the verifier finds for the wallet: the approved identities of the tokens it
\* owns.  The lookup returns the empty list when it fails.
OwnedIdentities ==
    {<<>>,
     <<[nftAddress |-> "0xnft", fullName |-> "ALICE"]>>,
     <<[nftAddress |-> "0xother", fullName |-> "Alice"]>>,
     <<[nftAddress |-> "0xother", fullName |-> "Alice"],
       [nftAddress |-> "0xnft", fullName |-> "Bob"]>>}

\* What getOwnedDigitalAssets does: it answers with the wallet's tokens, or throws.
OracleError == [threw |-> TRUE, tokens |-> <<>>]
OracleAnswers == {[threw |-> FALSE, tokens |-> o] : o \in OwnedIdentities} \cup {OracleError}
NotAsked == [threw |-> FALSE, tokens |-> <<>>]

\* The lookup handing on a list it has from before when the chain query throws.
getKYCVerifiedNames_staleOnError(answer) ==
    IF answer.threw THEN <<[nftAddress |-> "0xnft", fullName |-> "Alice"]>>
    ELSE answer.tokens

\* getKYCVerifiedNames: the approved identities of the answer; the catch around
\* the query returns the list as it is then, which is empty.
getKYCVerifiedNames(answer) == IF answer.threw THEN <<>> ELSE answer.tokens

toLowerCase(name) ==
    CASE name \in {"Alice", "ALICE", "alice"} -> "alice"
      [] name \in {"Bob", "BOB", "bob"} -> "bob"
      [] OTHER -> name

RECURSIVE Join(_)
Join(names) ==
    IF names = <<>> THEN ""
    ELSE IF Len(names) = 1 THEN Head(names).fullName
    ELSE Head(names).fullName \o ", " \o Join(Tail(names))

\* verifyKYCName on the identities found: the verdict and, when not verified, the reason.
verifyKYCName(verifiedNames, name, nftAddress) ==
    IF Len(verifiedNames) = 0
    THEN [verified |-> FALSE, error |-> "No KYC NFTs found for this wallet"]
    ELSE IF Truthy(nftAddress)
    THEN IF \E i \in 1..Len(verifiedNames) :
                /\ verifiedNames[i].nftAddress = nftAddress
                /\ toLowerCase(verifiedNames[i].fullName) = toLowerCase(name)
         THEN [verified |-> TRUE, error |-> NULL]
         ELSE [verified |-> FALSE, error |-> "Name does not match the specified KYC NFT"]
    ELSE IF \E i \in 1..Len(verifiedNames) :
                toLowerCase(verifiedNames[i].fullName) = toLowerCase(name)
         THEN [verified |-> TRUE, error |-> NULL]
         ELSE [verified |-> FALSE,
               error |-> "Name \"" \o name
                          \o "\" not found in wallet's KYC NFTs. Available names: "
                          \o Join(verifiedNames)]

\* The sign requests with a body out of `bodies`.
SignRequestsWith(bodies) ==
    {[Idle EXCEPT !.op = "sign", !.token = t, !.fieldId = f, !.body = b] :
        t \in Tokens, f \in FieldIds, b \in bodies}

SignRequests == SignRequestsWith(SignBodies)

\* The handler signing in the identity-verified branch whatever verifyKYCName found.
SignGuards_noKycTest(p, requests) ==
    /\ Arrive(p)
    /\ \E r \in requests :
       \E answer \in (IF SignMode(r.body) = "kyc" THEN OracleAnswers ELSE {NotAsked}) :
        LET owned == getKYCVerifiedNames(answer)
            asked == IF answer.threw THEN "error" ELSE "answered"
            verification == verifyKYCName(owned, r.body.verifiedName, r.body.kycNftAddress)
        IN
        /\ req' = [req EXCEPT ![p] =
             IF r.token \notin DOMAIN recipients THEN Respond(r, 404, "Invalid signing token")
             ELSE IF r.fieldId \notin DOMAIN fields THEN Respond(r, 404, "Field not found")
             ELSE IF fields[r.fieldId].recipient_id # r.token
                  THEN Respond(r, 403, "Field does not belong to this recipient")
             ELSE IF getSignatureByField(r.fieldId)
                  THEN Respond(r, 400, "Field has already been signed")
             ELSE IF isSignatureField(fields[r.fieldId].field_type)
                  THEN IF SignMode(r.body) = "none"
                       THEN Respond(r, 400, NoSignatureDataError)
                       ELSE [r EXCEPT !.pc = "sign_write1",
                                      !.id = recipients[r.token].package_id,
                                      !.fieldType = fields[r.fieldId].field_type,
                                      !.verification =
                                          IF SignMode(r.body) = "kyc" THEN verification
                                          ELSE @,
                                      !.oracle =
                                          IF SignMode(r.body) = "kyc" THEN asked ELSE @]
             ELSE IF r.body.value = NULL
                  THEN Respond(r, 400, "value is required for this field type")
                  ELSE [r EXCEPT !.pc = "sign_write1",
                                 !.id = recipients[r.token].package_id,
                                 !.fieldType = fields[r.fieldId].field_type]]
    /\ UNCHANGED <<packages, recipients, fields, signatures, audit_logs, facilitator>>

\* The handler up to its first write, for the requests in `requests`:
\* getRecipientByToken, getFieldById, the ownership test, getSignatureByField and,
\* in the identity-verified branch, verifyKYCName on what the wallet is found to own.
\* The recipient's package and the field's type are kept as read, and in the
\* identity-verified branch whether the chain query answered or threw.
SignGuards(p, requests) ==
    /\ Arrive(p)
    /\ \E r \in requests :
       \E answer \in (IF SignMode(r.body) = "kyc" THEN OracleAnswers ELSE {NotAsked}) :
        LET owned == getKYCVerifiedNames(answer)
            asked == IF answer.threw THEN "error" ELSE "answered"
            verification == verifyKYCName(owned, r.body.verifiedName, r.body.kycNftAddress)
        IN
        /\ req' = [req EXCEPT ![p] =
             IF r.token \notin DOMAIN recipients THEN Respond(r, 404, "Invalid signing token")
             ELSE IF r.fieldId \notin DOMAIN fields THEN Respond(r, 404, "Field not found")
             ELSE IF fields[r.fieldId].recipient_id # r.token
                  THEN Respond(r, 403, "Field does not belong to this recipient")
             ELSE IF getSignatureByField(r.fieldId)
                  THEN Respond(r, 400, "Field has already been signed")
             ELSE IF isSignatureField(fields[r.fieldId].field_type)
                  THEN IF SignMode(r.body) = "kyc" /\ ~verification.verified
                       THEN [Respond(r, 400, "KYC verification failed") EXCEPT
                                !.reason = verification.error,
                                !.verification = verification,
                                !.oracle = asked]
                       ELSE IF SignMode(r.body) = "none"
                       THEN Respond(r, 400, NoSignatureDataError)
                       ELSE [r EXCEPT !.pc = "sign_write1",
                                      !.id = recipients[r.token].package_id,
                                      !.fieldType = fields[r.fieldId].field_type,
                                      !.verification =
                                          IF SignMode(r.body) = "kyc" THEN verification
                                          ELSE @,
                                      !.oracle =
                                          IF SignMode(r.body) = "kyc" THEN asked ELSE @]
             ELSE IF r.body.value = NULL
                  THEN Respond(r, 400, "value is required for this field type")
                  ELSE [r EXCEPT !.pc = "sign_write1",
                                 !.id = recipients[r.token].package_id,
                                 !.fieldType = fields[r.fieldId].field_type]]
    /\ UNCHANGED <<packages, recipients, fields, signatures, audit_logs, facilitator>>

\* The handler without the getSignatureByField test.
SignCheck_noSignedTest(p) ==
    /\ Arrive(p)
    /\ \E r \in SignRequests :
        /\ req' = [req EXCEPT ![p] =
             IF r.token \notin DOMAIN recipients THEN Respond(r, 404, "Invalid signing token")
             ELSE IF r.fieldId \notin DOMAIN fields THEN Respond(r, 404, "Field not found")
             ELSE IF fields[r.fieldId].recipient_id # r.token
                  THEN Respond(r, 403, "Field does not belong to this recipient")
             ELSE IF isSignatureField(fields[r.fieldId].field_type)
                  THEN IF SignMode(r.body) = "none"
                       THEN Respond(r, 400, NoSignatureDataError)
                       ELSE [r EXCEPT !.pc = "sign_write1",
                                      !.id = recipients[r.token].package_id,
                                      !.fieldType = fields[r.fieldId].field_type]
             ELSE IF r.body.value = NULL
                  THEN Respond(r, 400, "value is required for this field type")
                  ELSE [r EXCEPT !.pc = "sign_write1",
                                 !.id = recipients[r.token].package_id,
                                 !.fieldType = fields[r.fieldId].field_type]]
    /\ UNCHANGED <<packages, recipients, fields, signatures, audit_logs, facilitator>>

\* POST /:token/field/:fieldId with a typed signature, a value or nothing.
SignCheck(p) == SignGuards(p, SignRequests)

\* The foreign keys of signatures and audit_logs: an INSERT that names a row which
\* is not there throws, and the handler's catch answers 500.
SignatureKeysExist(fieldId, recipientId) ==
    fieldId \in DOMAIN fields /\ recipientId \in DOMAIN recipients

AuditKeyExists(packageId) == packageId \in DOMAIN packages

\* Signature field: createSignature.  Other field: updateFieldValue.
SignWrite1(p) ==
    LET r == req[p]
        field == [field_type |-> r.fieldType] IN
    /\ r.pc = "sign_write1"
    /\ IF isSignatureField(field.field_type)
       THEN IF SignatureKeysExist(r.fieldId, r.token)
            THEN /\ signatures' = createSignature(signatures, r.fieldId, r.token,
                                                  SignatureData(field, r.body))
                 /\ req' = [req EXCEPT ![p].pc = "sign_write2"]
                 /\ UNCHANGED fields
            ELSE /\ req' = [req EXCEPT ![p] = Respond(r, 500, "Failed to sign field")]
                 /\ UNCHANGED <<fields, signatures>>
       ELSE /\ fields' = updateFieldValue(fields, r.fieldId, FieldValue(field, r.body))
            /\ req' = [req EXCEPT ![p].pc = "sign_write2"]
            /\ UNCHANGED signatures
    /\ UNCHANGED <<packages, recipients, audit_logs, facilitator, nreq>>

\* Signature field: updateFieldValue.  Other field: createSignature.  Then the
\* field_signed audit row and the 200 response.
SignWrite2(p) ==
    LET r == req[p]
        field == [field_type |-> r.fieldType] IN
    /\ r.pc = "sign_write2"
    /\ IF isSignatureField(field.field_type)
       THEN /\ fields' = updateFieldValue(fields, r.fieldId, FieldValue(field, r.body))
            /\ UNCHANGED signatures
            /\ IF AuditKeyExists(r.id)
               THEN /\ audit_logs' = createAuditLog(audit_logs, r.id, "field_signed")
                    /\ req' = [req EXCEPT ![p] = Respond(r, 200, NULL)]
               ELSE /\ req' = [req EXCEPT ![p] = Respond(r, 500, "Failed to sign field")]
                    /\ UNCHANGED audit_logs
       ELSE /\ UNCHANGED fields
            /\ IF SignatureKeysExist(r.fieldId, r.token) /\ AuditKeyExists(r.id)
               THEN /\ signatures' = createSignature(signatures, r.fieldId, r.token,
                                                     SignatureData(field, r.body))
                    /\ audit_logs' = createAuditLog(audit_logs, r.id, "field_signed")
                    /\ req' = [req EXCEPT ![p] = Respond(r, 200, NULL)]
               ELSE /\ signatures' = IF SignatureKeysExist(r.fieldId, r.token)
                                     THEN createSignature(signatures, r.fieldId, r.token,
                                                          SignatureData(field, r.body))
                                     ELSE signatures
                    /\ req' = [req EXCEPT ![p] = Respond(r, 500, "Failed to sign field")]
                    /\ UNCHANGED audit_logs
    /\ UNCHANGED <<packages, recipients, facilitator, nreq>>

----------------------------------------------------------------------------
(* routes/signing.ts: DELETE /:token/field/:fieldId *)

UnsignRequests ==
    {[Idle EXCEPT !.op = "unsign", !.token = t, !.fieldId = f] :
        t \in Tokens, f \in FieldIds}

\* The handler without the test of the recipient's signing status.
UnsignCheck_noSignedTest(p) ==
    /\ Arrive(p)
    /\ \E r \in UnsignRequests :
       req' = [req EXCEPT ![p] =
         IF r.token \notin DOMAIN recipients THEN Respond(r, 404, "Invalid signing token")
         ELSE IF r.fieldId \notin DOMAIN fields THEN Respond(r, 404, "Field not found")
         ELSE IF fields[r.fieldId].recipient_id # r.token
              THEN Respond(r, 403, "Field does not belong to this recipient")
         ELSE [r EXCEPT !.pc = "unsign_delete"]]
    /\ UNCHANGED <<packages, recipients, fields, signatures, audit_logs, facilitator>>

\* getRecipientByToken, the completed test, getFieldById, the ownership test.
UnsignCheck(p) ==
    /\ Arrive(p)
    /\ \E r \in UnsignRequests :
       req' = [req EXCEPT ![p] =
         IF r.token \notin DOMAIN recipients THEN Respond(r, 404, "Invalid signing token")
         ELSE IF recipients[r.token].signing_status = "signed"
              THEN Respond(r, 400, "Cannot unsign after completing the signing session")
         ELSE IF r.fieldId \notin DOMAIN fields THEN Respond(r, 404, "Field not found")
         ELSE IF fields[r.fieldId].recipient_id # r.token
              THEN Respond(r, 403, "Field does not belong to this recipient")
         ELSE [r EXCEPT !.pc = "unsign_delete"]]
    /\ UNCHANGED <<packages, recipients, fields, signatures, audit_logs, facilitator>>

UnsignDelete(p) ==
    LET r == req[p] IN
    /\ r.pc = "unsign_delete"
    /\ signatures' = deleteSignatureByField(signatures, r.fieldId)
    /\ req' = [req EXCEPT ![p].pc = "unsign_clear"]
    /\ UNCHANGED <<packages, recipients, fields, audit_logs, facilitator, nreq>>

\* clearFieldValue, the audit row (field_signed with action 'unsigned'), the 200.
UnsignClear(p) ==
    LET r == req[p] IN
    /\ r.pc = "unsign_clear"
    /\ fields' = clearFieldValue(fields, r.fieldId)
    /\ audit_logs' = createAuditLog(audit_logs, recipients[r.token].package_id, "field_signed")
    /\ req' = [req EXCEPT ![p] = Respond(r, 200, NULL)]
    /\ UNCHANGED <<packages, recipients, signatures, facilitator, nreq>>

----------------------------------------------------------------------------
(* routes/signing.ts: POST /:token/complete, and services/document.ts:
   checkAndCompleteDocument, generateFinalDocument *)

CompleteRequests == {[Idle EXCEPT !.op = "complete", !.token = t] : t \in Tokens}

RequiredOf(fs) == SelectSeq(fs, LAMBDA f : isRequiredField(fields[f]))

\* After the loop over the fields: 400 with the unsigned required fields, or go on.
AfterFieldLoop(r) ==
    IF r.todo = <<>>
    THEN IF Len(r.unsignedRequired) > 0
         THEN Respond(r, 400, "Not all required fields are signed")
         ELSE [r EXCEPT !.pc = "complete_update"]
    ELSE r

\* getRecipientByToken, getFieldsByRecipient.
CompleteLoad(p) ==
    /\ Arrive(p)
    /\ \E r \in CompleteRequests :
       req' = [req EXCEPT ![p] =
         IF r.token \notin DOMAIN recipients THEN Respond(r, 404, "Invalid signing token")
         ELSE AfterFieldLoop([r EXCEPT !.pc = "complete_fields",
                                       !.todo = RequiredOf(getFieldsByRecipient(r.token))])]
    /\ UNCHANGED <<packages, recipients, fields, signatures, audit_logs, facilitator>>

\* One turn of the loop: getSignatureByField for the next required field.
CompleteCheckField(p) ==
    LET r == req[p] IN
    /\ r.pc = "complete_fields"
    /\ r.todo # <<>>
    /\ req' = [req EXCEPT ![p] =
         AfterFieldLoop([r EXCEPT !.todo = Tail(r.todo),
                                  !.unsignedRequired =
                                      IF getSignatureByField(Head(r.todo)) THEN @
                                      ELSE Append(@, Head(r.todo))])]
    /\ UNCHANGED <<packages, recipients, fields, signatures, audit_logs, facilitator, nreq>>

\* updateRecipientStatus(recipient.id, 'signed', ...) and the signing_completed row.
CompleteUpdate(p) ==
    LET r == req[p] IN
    /\ r.pc = "complete_update"
    /\ recipients' = updateRecipientStatus(recipients, r.token, "signed")
    /\ audit_logs' = createAuditLog(audit_logs, recipients[r.token].package_id,
                                    "signing_completed")
    /\ req' = [req EXCEPT ![p].pc = "check_all", ![p].id = recipients[r.token].package_id]
    /\ UNCHANGED <<packages, fields, signatures, facilitator, nreq>>

\* checkAndCompleteDocument: checkAllRecipientsSigned; false ends the request.
\* checkAndCompleteDocument never finding every signer signed.
CheckAllSigned_neverAll(p) ==
    LET r == req[p] IN
    /\ r.pc = "check_all"
    /\ req' = [req EXCEPT ![p] = [Respond(r, 200, NULL) EXCEPT !.documentCompleted = FALSE]]
    /\ UNCHANGED <<packages, recipients, fields, signatures, audit_logs, facilitator, nreq>>

CheckAllSigned(p) ==
    LET r == req[p] IN
    /\ r.pc = "check_all"
    /\ req' = [req EXCEPT ![p] =
         IF checkAllRecipientsSigned(r.id)
         THEN [r EXCEPT !.pc = "final_load"]
         ELSE [Respond(r, 200, NULL) EXCEPT !.documentCompleted = FALSE]]
    /\ UNCHANGED <<packages, recipients, fields, signatures, audit_logs, facilitator, nreq>>

\* generateFinalDocument: getPackageById; without a row or document_data it returns.
FinalLoad(p) ==
    LET r == req[p] IN
    /\ r.pc = "final_load"
    /\ req' = [req EXCEPT ![p] =
         IF r.id \notin DOMAIN packages \/ packages[r.id].document_data = NoData
         THEN [r EXCEPT !.pc = "flip", !.fin = "no data"]
         ELSE [r EXCEPT !.pc = "final_render", !.doc_data = packages[r.id].document_data]]
    /\ UNCHANGED <<packages, recipients, fields, signatures, audit_logs, facilitator, nreq>>

\* generateFinalDocument: the renderer draws the fields and appends the confirmation
\* page to the bytes read, and updatePackageDocument stores them; or the renderer
\* throws, which the catch logs and swallows.
\* generateFinalDocument letting a render error out: the handler's catch answers.
FinalRender_failureThrows(p) ==
    LET r == req[p] IN
    /\ r.pc = "final_render"
    /\ \E rendered \in BOOLEAN :
        IF rendered
        THEN /\ packages' = updatePackageDocument(packages, r.id,
                                                  Append(r.doc_data, "confirmation"))
             /\ req' = [req EXCEPT ![p].pc = "flip", ![p].fin = "rendered"]
        ELSE /\ UNCHANGED packages
             /\ req' = [req EXCEPT ![p] =
                      [Respond(r, 500, "Failed to complete signing") EXCEPT !.fin = "failed"]]
    /\ UNCHANGED <<recipients, fields, signatures, audit_logs, facilitator, nreq>>

FinalRender(p) ==
    LET r == req[p] IN
    /\ r.pc = "final_render"
    /\ \E rendered \in BOOLEAN :
        IF rendered
        THEN /\ packages' = updatePackageDocument(packages, r.id,
                                                  Append(r.doc_data, "confirmation"))
             /\ req' = [req EXCEPT ![p].pc = "flip", ![p].fin = "rendered"]
        ELSE /\ UNCHANGED packages
             /\ req' = [req EXCEPT ![p].pc = "flip", ![p].fin = "failed"]
    /\ UNCHANGED <<recipients, fields, signatures, audit_logs, facilitator, nreq>>

\* checkAndCompleteDocument letting a failed render end the completion: the status
\* is left alone and false is returned.
Flip_failedStaysPut(p) ==
    LET r == req[p] IN
    /\ r.pc = "flip"
    /\ IF r.fin = "failed"
       THEN /\ UNCHANGED <<packages, audit_logs>>
            /\ req' = [req EXCEPT ![p] = [Respond(r, 200, NULL) EXCEPT !.fin = r.fin]]
       ELSE /\ packages' = updatePackageStatus(packages, r.id, "completed")
            /\ audit_logs' = createAuditLog(audit_logs, r.id, "document_completed")
            /\ req' = [req EXCEPT ![p] =
                     [Respond(r, 200, NULL) EXCEPT !.documentCompleted = TRUE,
                                                   !.fin = r.fin]]
    /\ UNCHANGED <<recipients, fields, signatures, facilitator, nreq>>

\* checkAndCompleteDocument after generateFinalDocument has returned:
\* updatePackageStatus(id, 'completed'), the document_completed row, return true.
Flip(p) ==
    LET r == req[p] IN
    /\ r.pc = "flip"
    /\ packages' = updatePackageStatus(packages, r.id, "completed")
    /\ audit_logs' = createAuditLog(audit_logs, r.id, "document_completed")
    /\ req' = [req EXCEPT ![p] = [Respond(r, 200, NULL) EXCEPT !.documentCompleted = TRUE,
                                                               !.fin = r.fin]]
    /\ UNCHANGED <<recipients, fields, signatures, facilitator, nreq>>

----------------------------------------------------------------------------
(* routes/documents.ts: POST /:id/distribute, POST /:id/cancel *)

Wallets == {"0xa11ce", "0xb0b"}

DistributeRequests == {[Idle EXCEPT !.op = "distribute", !.id = d] : d \in Docs}

RecipientsOf(d) == {x \in DOMAIN recipients : recipients[x].package_id = d}

\* getRecipientsByPackage: ORDER BY signing_order, which createDocument numbers in
\* insert order.
getRecipientsByPackage(d) == Ascending(RecipientsOf(d))

\* getDocument and the guards on what it returned.
SignersWithoutFields(d) ==
    {x \in Signers(recipients, d) :
        ~\E f \in DOMAIN fields : fields[f].recipient_id = x /\ fields[f].package_id = d}

\* The signer the loop stops at: the first one, in the order read, without a field.
FirstSignerWithoutFields(d) ==
    LET rs == getRecipientsByPackage(d)
        i == CHOOSE i \in 1..Len(rs) :
                /\ rs[i] \in SignersWithoutFields(d)
                /\ \A j \in 1..(i - 1) : rs[j] \notin SignersWithoutFields(d)
    IN  rs[i]

\* A recipient's name is its row number, written out.
SignerHasNoFields(x) == "Signer \"" \o ToString(x) \o "\" has no fields assigned"

\* signingLinks: the key recipient_<i> and the URL FRONTEND_URL/sign/<token> for the
\* i-th recipient read.
signingLinks(rs) ==
    [i \in 1..Len(rs) |-> [key |-> "recipient_" \o ToString(i),
                           url |-> "FRONTEND_URL/sign/" \o ToString(rs[i])]]

\* The handler answering for any signer without fields, not the one it stopped at,
\* and going on when every recipient lacks fields.
DistributeCheck_noFieldTest(p) ==
    /\ Arrive(p)
    /\ \E r \in DistributeRequests :
       req' = [req EXCEPT ![p] =
         IF r.id \notin DOMAIN packages THEN Respond(r, 404, "Document not found")
         ELSE IF packages[r.id].status # "draft"
              THEN Respond(r, 400, "Document has already been distributed")
         ELSE IF RecipientsOf(r.id) = {}
              THEN Respond(r, 400, "Document must have at least one recipient")
         ELSE [r EXCEPT !.pc = "distribute_update",
                        !.docRecipients = getRecipientsByPackage(r.id)]]
    /\ UNCHANGED <<packages, recipients, fields, signatures, audit_logs, facilitator>>

DistributeCheck(p) ==
    /\ Arrive(p)
    /\ \E r \in DistributeRequests :
       req' = [req EXCEPT ![p] =
         IF r.id \notin DOMAIN packages THEN Respond(r, 404, "Document not found")
         ELSE IF packages[r.id].status # "draft"
              THEN Respond(r, 400, "Document has already been distributed")
         ELSE IF RecipientsOf(r.id) = {}
              THEN Respond(r, 400, "Document must have at least one recipient")
         ELSE IF SignersWithoutFields(r.id) # {}
              THEN [Respond(r, 400, SignerHasNoFields(FirstSignerWithoutFields(r.id)))
                       EXCEPT !.recipientId = FirstSignerWithoutFields(r.id)]
         ELSE [r EXCEPT !.pc = "distribute_update",
                        !.docRecipients = getRecipientsByPackage(r.id)]]
    /\ UNCHANGED <<packages, recipients, fields, signatures, audit_logs, facilitator>>

\* distributeDocument: updatePackageStatus(id, 'pending'), the audit row if a row
\* came back, and the 200 with the signing links.
DistributeUpdate(p) ==
    LET r == req[p] IN
    /\ r.pc = "distribute_update"
    /\ packages' = updatePackageStatus(packages, r.id, "pending")
    /\ audit_logs' = IF r.id \in DOMAIN packages
                     THEN createAuditLog(audit_logs, r.id, "document_distributed")
                     ELSE audit_logs
    /\ req' = [req EXCEPT ![p] =
                  [Respond(r, 200, NULL) EXCEPT !.signingLinks = signingLinks(r.docRecipients)]]
    /\ UNCHANGED <<recipients, fields, signatures, facilitator, nreq>>

CancelRequests ==
    {[Idle EXCEPT !.op = "cancel", !.id = d, !.walletAddress = w] :
        d \in Docs, w \in Wallets}

CannotCancel(status) ==
    "Cannot cancel a document with status \"" \o status
        \o "\". Only pending documents can be cancelled."

\* The handler with the pending test ahead of the ownership test.
CancelCheck_statusFirst(p) ==
    /\ Arrive(p)
    /\ \E r \in CancelRequests :
       req' = [req EXCEPT ![p] =
         IF r.id \notin DOMAIN packages THEN Respond(r, 404, "Document not found")
         ELSE IF packages[r.id].status # "pending"
              THEN Respond(r, 400, CannotCancel(packages[r.id].status))
         ELSE IF packages[r.id].owner_wallet_address # r.walletAddress
              THEN Respond(r, 403, "Not authorized to cancel this document")
         ELSE [r EXCEPT !.pc = "cancel_update"]]
    /\ UNCHANGED <<packages, recipients, fields, signatures, audit_logs, facilitator>>

\* The handler without the pending test.
CancelCheck_noPendingTest(p) ==
    /\ Arrive(p)
    /\ \E r \in CancelRequests :
       req' = [req EXCEPT ![p] =
         IF r.id \notin DOMAIN packages THEN Respond(r, 404, "Document not found")
         ELSE IF packages[r.id].owner_wallet_address # r.walletAddress
              THEN Respond(r, 403, "Not authorized to cancel this document")
         ELSE [r EXCEPT !.pc = "cancel_update"]]
    /\ UNCHANGED <<packages, recipients, fields, signatures, audit_logs, facilitator>>

\* getDocument, the ownership test and the pending test.
CancelCheck(p) ==
    /\ Arrive(p)
    /\ \E r \in CancelRequests :
       req' = [req EXCEPT ![p] =
         IF r.id \notin DOMAIN packages THEN Respond(r, 404, "Document not found")
         ELSE IF packages[r.id].owner_wallet_address # r.walletAddress
              THEN Respond(r, 403, "Not authorized to cancel this document")
         ELSE IF packages[r.id].status # "pending"
              THEN Respond(r, 400, CannotCancel(packages[r.id].status))
         ELSE [r EXCEPT !.pc = "cancel_update"]]
    /\ UNCHANGED <<packages, recipients, fields, signatures, audit_logs, facilitator>>

\* cancelDocument: updatePackageStatus(id, 'cancelled'), the audit row, the 200.
CancelUpdate(p) ==
    LET r == req[p] IN
    /\ r.pc = "cancel_update"
    /\ packages' = updatePackageStatus(packages, r.id, "cancelled")
    /\ audit_logs' = IF r.id \in DOMAIN packages
                     THEN createAuditLog(audit_logs, r.id, "document_cancelled")
                     ELSE audit_logs
    /\ req' = [req EXCEPT ![p] = Respond(r, 200, NULL)]
    /\ UNCHANGED <<recipients, fields, signatures, facilitator, nreq>>

----------------------------------------------------------------------------
(* The store after one paid creation: document d1 in draft, owned by the payer,
   with two recipients and one field each. *)

Roles == {"signer", "viewer"}

\* The roles of the two recipients: both sign, one signs, or nobody signs.
RoleConfigs == {<<"signer", "signer">>, <<"signer", "viewer">>, <<"viewer", "viewer">>}

Init ==
    \E roles \in RoleConfigs :
      LET role1 == roles[1]
          role2 == roles[2] IN
        /\ packages = createPackage(<<>>, 1, "0xa11ce", 1, OriginalPdf, NULL)
        /\ recipients = createRecipient(createRecipient(<<>>, 1, 1, role1), 2, 1, role2)
        /\ fields = createField(createField(<<>>, 1, 1, 1, "signature", FALSE),
                                2, 1, 2, "text", FALSE)
        /\ signatures = <<>>
        /\ audit_logs = createAuditLog(<<>>, 1, "document_created")
        /\ facilitator = <<<<[call |-> "verify", ok |-> TRUE, transaction |-> 0],
                             [call |-> "settle", ok |-> TRUE, transaction |-> 1]>>>>
        /\ req = [p \in Procs |-> Idle]
        /\ nreq = 0

Next ==
    \E p \in Procs :
        \/ SignCheck(p) \/ SignWrite1(p) \/ SignWrite2(p)
        \/ UnsignCheck(p) \/ UnsignDelete(p) \/ UnsignClear(p)
        \/ CompleteLoad(p) \/ CompleteCheckField(p)
        \/ CompleteUpdate(p) \/ CheckAllSigned(p) \/ FinalLoad(p) \/ FinalRender(p)
        \/ Flip(p)
        \/ DistributeCheck(p) \/ DistributeUpdate(p)
        \/ CancelCheck(p) \/ CancelUpdate(p)

Spec == Init /\ [][Next]_vars

----------------------------------------------------------------------------
(* A signing session: the distributed document of one signer who has a signature
   field, a required text field and an optional text field; the sign requests
   include identity-verified ones. *)

SessionBodies == {BodyTyped, BodyKyc, BodyValue}

\* POST /:token/field/:fieldId with any of the session's bodies.
SignSession(p) == SignGuards(p, SignRequestsWith(SessionBodies))

InitSign ==
    /\ packages = updatePackageStatus(
                      createPackage(<<>>, 1, "0xa11ce", 1, OriginalPdf, NULL), 1, "pending")
    /\ recipients = createRecipient(<<>>, 1, 1, "signer")
    /\ fields = createField(createField(createField(<<>>, 1, 1, 1, "signature", FALSE),
                                         2, 1, 1, "text", TRUE),
                             3, 1, 1, "text", FALSE)
    /\ signatures = <<>>
    /\ audit_logs = createAuditLog(createAuditLog(<<>>, 1, "document_created"),
                                   1, "document_distributed")
    /\ facilitator = <<<<[call |-> "verify", ok |-> TRUE, transaction |-> 0],
                         [call |-> "settle", ok |-> TRUE, transaction |-> 1]>>>>
    /\ req = [p \in Procs |-> Idle]
    /\ nreq = 0

NextSign ==
    \E p \in Procs :
        \/ SignSession(p) \/ SignWrite1(p) \/ SignWrite2(p)
        \/ UnsignCheck(p) \/ UnsignDelete(p) \/ UnsignClear(p)
        \/ CompleteLoad(p) \/ CompleteCheckField(p)
        \/ CompleteUpdate(p) \/ CheckAllSigned(p) \/ FinalLoad(p) \/ FinalRender(p)
        \/ Flip(p)

SpecSign == InitSign /\ [][NextSign]_vars

----------------------------------------------------------------------------
(* middleware/x402.ts: x402PaymentMiddleware, verifyPayment, settlePayment;
   routes/documents.ts: POST /create; services/document.ts: createDocument *)

Recipient(role) ==
    [walletAddress |-> NULL, email |-> "a@x.com", name |-> "Alice", role |-> role]

Tag(type, recipient) == [type |-> type, recipient |-> recipient]

InPdf ==
    [title |-> "NDA", format |-> "pdf", content |-> NULL, pdfBase64 |-> "JVBERi0",
     recipients |-> <<Recipient("signer")>>]
InHtml ==
    [title |-> "NDA", format |-> "html", pdfBase64 |-> NULL,
     content |-> <<Tag("signature", 1), Tag("text", 2), Tag("date", 3)>>,
     recipients |-> <<Recipient("signer"), Recipient("viewer")>>]
InHtmlBadType == [InHtml EXCEPT !.content = <<Tag("signature", 1), Tag("stamp", 2)>>]
InNoTitle == [InPdf EXCEPT !.title = ""]
InNoContact == [InPdf EXCEPT !.recipients = <<[Recipient("signer") EXCEPT !.email = NULL]>>]

CreateInputs == {InPdf, InHtml, InHtmlBadType, InNoTitle, InNoContact}

\* The payment-signature header: absent, not base64 JSON, or a decodable proof.
Headers == {NULL, "garbage", "proof"}

CreateRequests ==
    {[Idle EXCEPT !.op = "create", !.header = h, !.input = i] :
        h \in Headers, i \in CreateInputs}

\* What a call to the facilitator comes back with.  Unreachable: fetch throws.
\* Malformed: the /verify body is not JSON.
VerifyAnswers ==
    {[ok |-> TRUE, payer |-> w, reason |-> NULL] : w \in Wallets}
    \cup {[ok |-> FALSE, payer |-> NULL, reason |-> x] :
            x \in {"insufficient funds", "Verification request failed",
                   "Invalid response"}}

\* The wallet that signed a payment proof; it is the payer the facilitator names
\* for the proof.
SignerOf(proof) == IF proof % 2 = 1 THEN "0xa11ce" ELSE "0xb0b"

\* A settlement may name the payer too, or not.
SettleAnswers ==
    {[ok |-> TRUE, payer |-> w, reason |-> NULL] : w \in Wallets \cup {NULL}}
    \cup {[ok |-> FALSE, payer |-> NULL, reason |-> x] :
            x \in {"settle reverted", "Settlement request failed"}}

\* paymentInfo.payer taken from the settlement alone.
paymentInfoPayer_settleOnly(verifyPayer, settlePayer) == settlePayer

\* paymentInfo.payer: verifyResult.payer || settleResult.payer.
paymentInfoPayer(verifyPayer, settlePayer) ==
    IF Truthy(verifyPayer) THEN verifyPayer ELSE settlePayer

CallsOf(log, proof) == IF proof \in DOMAIN log THEN log[proof] ELSE <<>>

Call(log, proof, call) ==
    [x \in DOMAIN log \cup {proof} |->
        IF x = proof THEN Append(CallsOf(log, x), call) ELSE log[x]]

\* The proofs the facilitator has settled; each settlement has its own transaction.
Settled(log) ==
    {x \in DOMAIN log : \E i \in 1..Len(log[x]) : log[x][i].call = "settle" /\ log[x][i].ok}

NoContact(x) == ~Truthy(x.walletAddress) /\ ~Truthy(x.email)

\* The loop over body.recipients: the first recipient that fails a test decides.
FirstMissing(rs) ==
    LET bad == {i \in 1..Len(rs) : NoContact(rs[i]) \/ ~Truthy(rs[i].name)} IN
    IF bad = {} THEN NULL
    ELSE LET i == CHOOSE k \in bad : \A j \in bad : k <= j
         IN  IF NoContact(rs[i])
             THEN "Each recipient must have walletAddress and/or email"
             ELSE "Each recipient must have a name"

ValidationError(body) ==
    IF ~Truthy(body.title) THEN "title is required"
    ELSE IF body.format \notin {"html", "pdf"} THEN "format must be \"html\" or \"pdf\""
    ELSE IF body.format = "html" /\ body.content = NULL
         THEN "content is required for HTML format"
    ELSE IF body.format = "pdf" /\ ~Truthy(body.pdfBase64)
         THEN "pdfBase64 is required for PDF format"
    ELSE IF Len(body.recipients) = 0 THEN "at least one recipient is required"
    ELSE FirstMissing(body.recipients)

\* The requirements a payment must meet, and the challenge that carries them.  The
\* PAYMENT-REQUIRED response header is the challenge encoded; a response without the
\* header has the empty sequence.
buildPaymentRequirements ==
    [scheme |-> "exact", network |-> "config.x402.network",
     amount |-> "config.x402.priceAtomic", asset |-> "config.x402.usdcAssetAddress",
     payTo |-> "config.x402.paymentRecipientAddress", maxTimeoutSeconds |-> 300,
     sponsored |-> TRUE]

buildPaymentRequired ==
    [x402Version |-> 2, error |-> "PAYMENT-SIGNATURE header is required",
     accepts |-> <<buildPaymentRequirements>>]

Base64Json(x) == <<"base64", "json", x>>

\* The middleware letting a request without the header through to verifyPayment.
X402Receive_failOpen(p) ==
    /\ CanStart(p)
    /\ nreq < MaxCreate
    /\ nreq' = nreq + 1
    /\ \E r \in CreateRequests :
       req' = [req EXCEPT ![p] =
         IF r.header = "garbage"
         THEN Respond(r, 500, "Internal server error processing payment")
         ELSE [r EXCEPT !.pc = "verify", !.proof = nreq']]
    /\ UNCHANGED <<packages, recipients, fields, signatures, audit_logs, facilitator>>

\* No header: the 402 challenge.  A header that does not decode: JSON.parse throws
\* into the catch, which answers 500.  Otherwise verifyPayment is called.
X402Receive(p) ==
    /\ CanStart(p)
    /\ nreq < MaxCreate
    /\ nreq' = nreq + 1
    /\ \E r \in CreateRequests :
       req' = [req EXCEPT ![p] =
         IF r.header = NULL
         THEN [Respond(r, 402, "Payment required") EXCEPT
                  !.paymentRequired = Base64Json(buildPaymentRequired)]
         ELSE IF r.header = "garbage"
              THEN Respond(r, 500, "Internal server error processing payment")
         ELSE [r EXCEPT !.pc = "verify", !.proof = nreq']]
    /\ UNCHANGED <<packages, recipients, fields, signatures, audit_logs, facilitator>>

\* The middleware going on to settlePayment whatever verifyPayment returned.
X402Verify_settleAnyway(p) ==
    LET r == req[p] IN
    /\ r.pc = "verify"
    /\ \E a \in VerifyAnswers :
        /\ a.ok => a.payer = SignerOf(r.proof)
        /\ facilitator' = Call(facilitator, r.proof,
                                [call |-> "verify", ok |-> a.ok, transaction |-> 0])
        /\ req' = [req EXCEPT ![p] = [r EXCEPT !.pc = "settle", !.payer = a.payer]]
    /\ UNCHANGED <<packages, recipients, fields, signatures, audit_logs, nreq>>

\* verifyPayment returns; not valid answers 402 with the reason, valid goes on to
\* settlePayment.
X402Verify(p) ==
    LET r == req[p] IN
    /\ r.pc = "verify"
    /\ \E a \in VerifyAnswers :
        /\ a.ok => a.payer = SignerOf(r.proof)
        /\ facilitator' = Call(facilitator, r.proof,
                                [call |-> "verify", ok |-> a.ok, transaction |-> 0])
        /\ req' = [req EXCEPT ![p] =
             IF ~a.ok
             THEN [Respond(r, 402, "Payment verification failed") EXCEPT !.reason = a.reason]
             ELSE [r EXCEPT !.pc = "settle", !.payer = a.payer]]
    /\ UNCHANGED <<packages, recipients, fields, signatures, audit_logs, nreq>>

\* settlePayment returns; failure answers 402 with the reason.  Success attaches
\* paymentInfo and calls next(): the creation handler validates the body and, if
\* it is valid, createDocument inserts the package row.
X402Settle(p) ==
    LET r == req[p] IN
    /\ r.pc = "settle"
    /\ \E a \in {b \in SettleAnswers : b.payer \in {NULL, SignerOf(r.proof)}} :
        LET tx == IF a.ok THEN Cardinality(Settled(facilitator)) + 1 ELSE 0
            id == NewId(packages) IN
        /\ facilitator' = Call(facilitator, r.proof,
                                [call |-> "settle", ok |-> a.ok, transaction |-> tx])
        /\ IF ~a.ok
           THEN /\ req' = [req EXCEPT ![p] =
                     [Respond(r, 402, "Payment settlement failed") EXCEPT
                         !.reason = a.reason]]
                /\ UNCHANGED packages
           ELSE IF ValidationError(r.input) # NULL
           THEN /\ req' = [req EXCEPT ![p] = Respond(r, 400, ValidationError(r.input))]
                /\ UNCHANGED packages
           ELSE /\ packages' = createPackage(packages, id,
                        paymentInfoPayer(r.payer, a.payer), tx,
                        IF r.input.format = "pdf" THEN <<r.input.pdfBase64>> ELSE NoData,
                        IF r.input.format = "html" THEN "html" ELSE NULL)
                /\ req' = [req EXCEPT ![p].pc = "create_rows", ![p].id = id,
                                      ![p].transactionHash = tx,
                                      ![p].payer = paymentInfoPayer(r.payer, a.payer)]
    /\ UNCHANGED <<recipients, fields, signatures, audit_logs, nreq>>

FieldTypes == {"signature", "free-signature", "initial", "name", "email", "date",
               "text", "number", "checkbox", "radio", "dropdown"}

RECURSIVE CreateRecipients(_, _, _)
\* The loop over request.recipients: each gets the next id of the table.
CreateRecipients(rc, packageId, rs) ==
    IF rs = <<>> THEN rc
    ELSE CreateRecipients(createRecipient(rc, NewId(rc), packageId,
                                          IF Truthy(Head(rs).role) THEN Head(rs).role
                                          ELSE "signer"),
                          packageId, Tail(rs))

RECURSIVE ParseAndCreateFields(_, _, _, _)
\* parseAndCreateFieldsFromHtml: a tag whose recipient number is not in the map is
\* skipped; a tag whose type the signature_fields CHECK rejects makes createField
\* throw, the fields created before it stay.  Returns the table and whether it threw.
ParseAndCreateFields(fl, packageId, tags, recipientMap) ==
    IF tags = <<>> THEN [fields |-> fl, threw |-> FALSE]
    ELSE LET tag == Head(tags) IN
         IF tag.recipient \notin DOMAIN recipientMap
         THEN ParseAndCreateFields(fl, packageId, Tail(tags), recipientMap)
         ELSE IF tag.type \notin FieldTypes
         THEN [fields |-> fl, threw |-> TRUE]
         ELSE ParseAndCreateFields(
                 createField(fl, NewId(fl), packageId, recipientMap[tag.recipient],
                             tag.type, FALSE),
                 packageId, Tail(tags), recipientMap)

\* createDocument after the package row: the recipients, the fields of an HTML
\* document, the document_created audit row, and the 200; a throw answers 500.
CreateRows(p) ==
    LET r == req[p]
        first == NewId(recipients)
        n == Len(r.input.recipients)
        recipientMap == [i \in 1..n |-> first + i - 1]
        parsed == IF r.input.format = "html" /\ r.input.content # NULL
                     /\ r.input.content # <<>>
                  THEN ParseAndCreateFields(fields, r.id, r.input.content, recipientMap)
                  ELSE [fields |-> fields, threw |-> FALSE] IN
    /\ r.pc = "create_rows"
    /\ recipients' = CreateRecipients(recipients, r.id, r.input.recipients)
    /\ fields' = parsed.fields
    /\ IF parsed.threw
       THEN /\ req' = [req EXCEPT ![p] = Respond(r, 500, "Failed to create document")]
            /\ UNCHANGED audit_logs
       ELSE /\ req' = [req EXCEPT ![p] =
                 [Respond(r, 200, NULL) EXCEPT !.id = r.id,
                                               !.transactionHash = r.transactionHash,
                                               !.payer = r.payer]]
            /\ audit_logs' = createAuditLog(audit_logs, r.id, "document_created")
    /\ UNCHANGED <<packages, signatures, facilitator, nreq>>

InitPay ==
    /\ packages = <<>>
    /\ recipients = <<>>
    /\ fields = <<>>
    /\ signatures = <<>>
    /\ audit_logs = <<>>
    /\ facilitator = <<>>
    /\ req = [p \in Procs |-> Idle]
    /\ nreq = 0

NextPay ==
    \E p \in Procs : X402Receive(p) \/ X402Verify(p) \/ X402Settle(p) \/ CreateRows(p)

SpecPay == InitPay /\ [][NextPay]_vars

----------------------------------------------------------------------------
(* db/schema.ts, Deletion Functions, with the foreign keys of the schema: a row of
   recipients, signature_fields or signatures goes with the row it references
   (ON DELETE CASCADE); an audit_logs row stays with package_id NULL
   (ON DELETE SET NULL). *)

\* The package_id of audit rows that reference no package.
NoPackage == -1

FieldsOfPackage(fl, d) == {f \in DOMAIN fl : fl[f].package_id = d}

\* The signatures left when the fields in `fs` and the recipients in `rs` go.
CascadeSignatures(sg, fs, rs) ==
    LET kept(f) == SelectSeq(sg[f], LAMBDA row : row.recipient_id \notin rs)
        live == {f \in DOMAIN sg \ fs : Len(kept(f)) > 0}
    IN  [f \in live |-> kept(f)]

\* The fields left when the recipients in `rs` go.
CascadeFields(fl, rs) ==
    [f \in {g \in DOMAIN fl : fl[g].recipient_id \notin rs} |-> fl[f]]

\* DELETE FROM signatures WHERE field_id IN (SELECT id FROM signature_fields ...).
deleteSignaturesByPackage(sg, fl, d) == CascadeSignatures(sg, FieldsOfPackage(fl, d), {})

deleteFieldsByPackage(fl, d) == [f \in DOMAIN fl \ FieldsOfPackage(fl, d) |-> fl[f]]

deleteRecipientsByPackage(rc, d) ==
    [x \in {y \in DOMAIN rc : rc[y].package_id # d} |-> rc[x]]

deleteAuditLogsByPackage(al, d) == [e \in DOMAIN al \ {d} |-> al[e]]

\* The audit rows after the package row went: those of d now have package_id NULL.
SetNullAuditLogs(al, d) ==
    IF d \notin DOMAIN al THEN al
    ELSE [e \in (DOMAIN al \ {d}) \cup {NoPackage} |->
            [t \in EventTypes |->
                IF e = NoPackage THEN AuditCount(al, NoPackage, t) + al[d][t]
                ELSE al[e][t]]]

deletePackage(pk, d) == [e \in DOMAIN pk \ {d} |-> pk[e]]

----------------------------------------------------------------------------
(* routes/documents.ts: PUT /:id/fields *)

\* The recipients the new fields of a request are for, in the order of req.body.fields.
\* Each new field is a signature field.
FieldLists == {<<2>>, <<1, 2>>, <<BadId>>}

AddFieldsRequests ==
    {[Idle EXCEPT !.op = "addFields", !.id = d, !.newFields = l] :
        d \in Docs, l \in FieldLists}

\* uuid_generate_v4(): an id no row and no request has.
FreshFieldId ==
    LET used == DOMAIN fields \cup DOMAIN signatures \cup {req[q].fieldId : q \in Procs}
    IN  1 + CHOOSE m \in used : \A i \in used : i <= m

\* getDocument and the draft test.
AddFieldsCheck(p) ==
    /\ Arrive(p)
    /\ \E r \in AddFieldsRequests :
       req' = [req EXCEPT ![p] =
         IF r.id \notin DOMAIN packages THEN Respond(r, 404, "Document not found")
         ELSE IF packages[r.id].status # "draft"
              THEN Respond(r, 400, "Cannot modify fields on a non-draft document")
         ELSE [r EXCEPT !.pc = "add_field"]]
    /\ UNCHANGED <<packages, recipients, fields, signatures, audit_logs, facilitator>>

\* signature_fields.package_id and recipient_id are foreign keys.
FieldKeysExist(packageId, recipientId) ==
    packageId \in DOMAIN packages /\ recipientId \in DOMAIN recipients

\* One turn of the loop: addFieldToDocument (createField) for the next field; the
\* INSERT throws when a referenced row is missing; after the last field, the 200.
AddField(p) ==
    LET r == req[p] IN
    /\ r.pc = "add_field"
    /\ IF FieldKeysExist(r.id, Head(r.newFields))
       THEN /\ fields' = createField(fields, FreshFieldId, r.id, Head(r.newFields),
                                     "signature", FALSE)
            /\ req' = [req EXCEPT ![p] =
                 IF Tail(r.newFields) = <<>> THEN Respond(r, 200, NULL)
                 ELSE [r EXCEPT !.newFields = Tail(r.newFields)]]
       ELSE /\ req' = [req EXCEPT ![p] = Respond(r, 500, "Failed to add fields")]
            /\ UNCHANGED fields
    /\ UNCHANGED <<packages, recipients, signatures, audit_logs, facilitator, nreq>>

----------------------------------------------------------------------------
(* routes/documents.ts: DELETE /:id, and services/document.ts: deleteDocument *)

DeleteRequests ==
    {[Idle EXCEPT !.op = "delete", !.id = d, !.walletAddress = w] :
        d \in Docs, w \in Wallets}

CannotDelete(status) ==
    "Cannot delete a document with status \"" \o status
        \o "\". Only draft or cancelled documents can be deleted."

\* The handler without the ownership test.
DeleteCheck_noOwnerTest(p) ==
    /\ Arrive(p)
    /\ \E r \in DeleteRequests :
       req' = [req EXCEPT ![p] =
         IF r.id \notin DOMAIN packages THEN Respond(r, 404, "Document not found")
         ELSE IF packages[r.id].status \notin {"draft", "cancelled"}
              THEN Respond(r, 400, CannotDelete(packages[r.id].status))
         ELSE [r EXCEPT !.pc = "delete_signatures"]]
    /\ UNCHANGED <<packages, recipients, fields, signatures, audit_logs, facilitator>>

\* getDocument, the ownership test and the status test; deleteDocument's own
\* getPackageById reads a row it does not use.
DeleteCheck(p) ==
    /\ Arrive(p)
    /\ \E r \in DeleteRequests :
       req' = [req EXCEPT ![p] =
         IF r.id \notin DOMAIN packages THEN Respond(r, 404, "Document not found")
         ELSE IF packages[r.id].owner_wallet_address # r.walletAddress
              THEN Respond(r, 403, "Not authorized to delete this document")
         ELSE IF packages[r.id].status \notin {"draft", "cancelled"}
              THEN Respond(r, 400, CannotDelete(packages[r.id].status))
         ELSE [r EXCEPT !.pc = "delete_signatures"]]
    /\ UNCHANGED <<packages, recipients, fields, signatures, audit_logs, facilitator>>

DeleteSignatures(p) ==
    LET r == req[p] IN
    /\ r.pc = "delete_signatures"
    /\ signatures' = deleteSignaturesByPackage(signatures, fields, r.id)
    /\ req' = [req EXCEPT ![p].pc = "delete_fields"]
    /\ UNCHANGED <<packages, recipients, fields, audit_logs, facilitator, nreq>>

DeleteFields(p) ==
    LET r == req[p] IN
    /\ r.pc = "delete_fields"
    /\ fields' = deleteFieldsByPackage(fields, r.id)
    /\ signatures' = CascadeSignatures(signatures, FieldsOfPackage(fields, r.id), {})
    /\ req' = [req EXCEPT ![p].pc = "delete_recipients"]
    /\ UNCHANGED <<packages, recipients, audit_logs, facilitator, nreq>>

DeleteRecipients(p) ==
    LET r == req[p]
        gone == RecipientsOf(r.id) IN
    /\ r.pc = "delete_recipients"
    /\ recipients' = deleteRecipientsByPackage(recipients, r.id)
    /\ fields' = CascadeFields(fields, gone)
    /\ signatures' = CascadeSignatures(signatures,
                                       {f \in DOMAIN fields : fields[f].recipient_id \in gone},
                                       gone)
    /\ req' = [req EXCEPT ![p].pc = "delete_audit"]
    /\ UNCHANGED <<packages, audit_logs, facilitator, nreq>>

DeleteAuditLogs(p) ==
    LET r == req[p] IN
    /\ r.pc = "delete_audit"
    /\ audit_logs' = deleteAuditLogsByPackage(audit_logs, r.id)
    /\ req' = [req EXCEPT ![p].pc = "delete_package"]
    /\ UNCHANGED <<packages, recipients, fields, signatures, facilitator, nreq>>

\* The DELETE of the package row without what the foreign keys do.
DeletePackage_noCascade(p) ==
    LET r == req[p] IN
    /\ r.pc = "delete_package"
    /\ packages' = deletePackage(packages, r.id)
    /\ req' = [req EXCEPT ![p] = Respond(r, 200, NULL)]
    /\ UNCHANGED <<recipients, fields, signatures, audit_logs, facilitator, nreq>>

\* deletePackage, what the foreign keys do with the rows still referencing the
\* package, and the 200 'Document deleted successfully'.
DeletePackage(p) ==
    LET r == req[p]
        gone == RecipientsOf(r.id)
        goneFields == {f \in DOMAIN fields :
                          fields[f].package_id = r.id \/ fields[f].recipient_id \in gone} IN
    /\ r.pc = "delete_package"
    /\ packages' = deletePackage(packages, r.id)
    /\ recipients' = deleteRecipientsByPackage(recipients, r.id)
    /\ fields' = [f \in DOMAIN fields \ goneFields |-> fields[f]]
    /\ signatures' = CascadeSignatures(signatures, goneFields, gone)
    /\ audit_logs' = SetNullAuditLogs(audit_logs, r.id)
    /\ req' = [req EXCEPT ![p] = Respond(r, 200, NULL)]
    /\ UNCHANGED <<facilitator, nreq>>

----------------------------------------------------------------------------
(* Managing a draft: document 1 as createDocument can leave it, owned by 0xa11ce:
   two signers of whom only the first has a field; a signer with a field and a
   viewer without; or no recipient at all (createDocument stopped after
   createPackage). *)

DraftConfigs == {<<"signer", "signer">>, <<"signer", "viewer">>, <<>>}

InitDoc ==
    \E roles \in DraftConfigs :
        /\ packages = createPackage(<<>>, 1, "0xa11ce", 1, OriginalPdf, NULL)
        /\ recipients = IF roles = <<>> THEN <<>>
                        ELSE createRecipient(createRecipient(<<>>, 1, 1, roles[1]),
                                             2, 1, roles[2])
        /\ fields = IF roles = <<>> THEN <<>>
                    ELSE createField(<<>>, 1, 1, 1, "signature", FALSE)
        /\ signatures = <<>>
        /\ audit_logs = IF roles = <<>> THEN <<>>
                        ELSE createAuditLog(<<>>, 1, "document_created")
        /\ facilitator = <<<<[call |-> "verify", ok |-> TRUE, transaction |-> 0],
                             [call |-> "settle", ok |-> TRUE, transaction |-> 1]>>>>
        /\ req = [p \in Procs |-> Idle]
        /\ nreq = 0

\* The sign requests of this specification carry a typed signature.
SignTyped(p) == SignGuards(p, SignRequestsWith({BodyTyped}))

NextDoc ==
    \E p \in Procs :
        \/ AddFieldsCheck(p) \/ AddField(p)
        \/ DistributeCheck(p) \/ DistributeUpdate(p)
        \/ CancelCheck(p) \/ CancelUpdate(p)
        \/ DeleteCheck(p) \/ DeleteSignatures(p) \/ DeleteFields(p)
        \/ DeleteRecipients(p) \/ DeleteAuditLogs(p) \/ DeletePackage(p)
        \/ SignTyped(p) \/ SignWrite1(p) \/ SignWrite2(p)

SpecDoc == InitDoc /\ [][NextDoc]_vars

----------------------------------------------------------------------------
(* Signing with every payload: the distributed document 1; signer 1 has the
   signature field 1 and the text field 2, recipient 2 has no field.  One request
   at a time; its body has any combination of the payload parts. *)

\* A JSON value: absent, the empty string, zero (sent to the store it is the text
\* "0", and String(0) is "0"), or a text.
Values == {NULL, "", "0", "v"}

\* Every combination of the parts of a signature, without or with a value; and
\* every value alone.
AllBodies ==
    {[kycNftAddress |-> a, verifiedName |-> n, walletSignature |-> ws,
      walletAddress |-> wa, documentHash |-> h, typedSignature |-> t,
      signatureImage |-> i, value |-> v] :
        a \in {NULL, "0xnft"}, n \in {NULL, "Alice"}, ws \in {NULL, "0xsig"},
        wa \in {NULL, "0xa11ce"}, h \in {NULL, "sha256"}, t \in {NULL, "Alice A."},
        i \in {NULL, "data:image/png"}, v \in {NULL, "v"}}
    \cup {[EmptyBody EXCEPT !.value = v] : v \in Values}

\* POST /:token/field/:fieldId with any body.
SignAny(p) == SignGuards(p, SignRequestsWith(AllBodies))

InitModes ==
    /\ packages = updatePackageStatus(
                      createPackage(<<>>, 1, "0xa11ce", 1, OriginalPdf, NULL), 1, "pending")
    /\ recipients = createRecipient(createRecipient(<<>>, 1, 1, "signer"), 2, 1, "viewer")
    /\ fields = createField(createField(<<>>, 1, 1, 1, "signature", FALSE),
                            2, 1, 1, "text", FALSE)
    /\ signatures = <<>>
    /\ audit_logs = createAuditLog(createAuditLog(<<>>, 1, "document_created"),
                                   1, "document_distributed")
    /\ facilitator = <<<<[call |-> "verify", ok |-> TRUE, transaction |-> 0],
                         [call |-> "settle", ok |-> TRUE, transaction |-> 1]>>>>
    /\ req = [p \in Procs |-> Idle]
    /\ nreq = 0

NextModes ==
    \E p \in {1} :
        \/ SignAny(p) \/ SignWrite1(p) \/ SignWrite2(p)
        \/ UnsignCheck(p) \/ UnsignDelete(p) \/ UnsignClear(p)

SpecModes == InitModes /\ [][NextModes]_vars

----------------------------------------------------------------------------
(* Two drafts: documents 1 and 2 as createDocument leaves them, each with one
   signer and that signer's signature field; fields are added and the documents
   distributed. *)

InitTwo ==
    /\ packages = createPackage(createPackage(<<>>, 1, "0xa11ce", 1, OriginalPdf, NULL),
                                2, "0xb0b", 2, OriginalPdf, NULL)
    /\ recipients = createRecipient(createRecipient(<<>>, 1, 1, "signer"), 2, 2, "signer")
    /\ fields = createField(createField(<<>>, 1, 1, 1, "signature", FALSE),
                            2, 2, 2, "signature", FALSE)
    /\ signatures = <<>>
    /\ audit_logs = createAuditLog(createAuditLog(<<>>, 1, "document_created"),
                                   2, "document_created")
    /\ facilitator = <<<<[call |-> "verify", ok |-> TRUE, transaction |-> 0],
                         [call |-> "settle", ok |-> TRUE, transaction |-> 1]>>,
                       <<[call |-> "verify", ok |-> TRUE, transaction |-> 0],
                         [call |-> "settle", ok |-> TRUE, transaction |-> 2]>>>>
    /\ req = [p \in Procs |-> Idle]
    /\ nreq = 0

NextTwo ==
    \E p \in Procs :
        \/ AddFieldsCheck(p) \/ AddField(p)
        \/ DistributeCheck(p) \/ DistributeUpdate(p)

SpecTwo == InitTwo /\ [][NextTwo]_vars

----------------------------------------------------------------------------
(* Creating, then managing: documents are created through the payment
   middleware; once no creation is under way they are distributed, cancelled
   and deleted. *)

Creating == \E q \in Procs : req[q].op = "create" /\ req[q].pc \notin {"idle", "done"}

\* The creation requests come first and leave room for two requests after them.
CreateFirst(p) == nreq + 2 < MaxReq /\ X402Receive(p)

Manage(p) ==
    /\ nreq + 2 >= MaxReq
    /\ ~Creating
    /\ DistributeCheck(p) \/ CancelCheck(p) \/ DeleteCheck(p)

NextOwn ==
    \E p \in Procs :
        \/ CreateFirst(p) \/ X402Verify(p) \/ X402Settle(p) \/ CreateRows(p)
        \/ Manage(p)
        \/ DistributeUpdate(p) \/ CancelUpdate(p)
        \/ DeleteSignatures(p) \/ DeleteFields(p) \/ DeleteRecipients(p)
        \/ DeleteAuditLogs(p) \/ DeletePackage(p)

SpecOwn == InitPay /\ [][NextOwn]_vars

----------------------------------------------------------------------------
(* routes/documents.ts: GET /:id/download, and services/document.ts:
   getSignedDocument *)

DownloadRequests == {[Idle EXCEPT !.op = "download", !.id = d] : d \in Docs}

\* getSignedDocument: null without a row or without document_data, else the bytes
\* of document_data; the handler answers 404 'Document not found' or sends them.
Download(p) ==
    /\ Arrive(p)
    /\ \E r \in DownloadRequests :
       req' = [req EXCEPT ![p] =
         IF r.id \notin DOMAIN packages \/ packages[r.id].document_data = NoData
         THEN Respond(r, 404, "Document not found")
         ELSE [Respond(r, 200, NULL) EXCEPT !.doc_data = packages[r.id].document_data]]
    /\ UNCHANGED <<packages, recipients, fields, signatures, audit_logs, facilitator>>

----------------------------------------------------------------------------
(* Two signers finishing: the distributed document 1 with two signers, a
   signature field each; nobody cancels; the artifact is downloaded at any
   time.  A handler that has started goes on to
   its response: every step after a request's first is taken sooner or later. *)

InitPending ==
    /\ packages = updatePackageStatus(
                      createPackage(<<>>, 1, "0xa11ce", 1, OriginalPdf, NULL), 1, "pending")
    /\ recipients = createRecipient(createRecipient(<<>>, 1, 1, "signer"), 2, 1, "signer")
    /\ fields = createField(createField(<<>>, 1, 1, 1, "signature", FALSE),
                            2, 1, 2, "signature", FALSE)
    /\ signatures = <<>>
    /\ audit_logs = createAuditLog(createAuditLog(<<>>, 1, "document_created"),
                                   1, "document_distributed")
    /\ facilitator = <<<<[call |-> "verify", ok |-> TRUE, transaction |-> 0],
                         [call |-> "settle", ok |-> TRUE, transaction |-> 1]>>>>
    /\ req = [p \in Procs |-> Idle]
    /\ nreq = 0

\* The steps of a handler after its first.
Continue(p) ==
    \/ SignWrite1(p) \/ SignWrite2(p)
    \/ UnsignDelete(p) \/ UnsignClear(p)
    \/ CompleteCheckField(p) \/ CompleteUpdate(p) \/ CheckAllSigned(p)
    \/ FinalLoad(p) \/ FinalRender(p) \/ Flip(p)

NextPending ==
    \E p \in Procs :
        \/ SignTyped(p) \/ UnsignCheck(p) \/ CompleteLoad(p)
        \/ Download(p)
        \/ Continue(p)

SpecFinish ==
    InitPending /\ [][NextPending]_vars /\ \A p \in Procs : WF_vars(Continue(p))

----------------------------------------------------------------------------
(* Properties of the document lifecycle and of signing, under Spec *)

\* C1: in every reachable state, each document's status is completed exactly when
\* its completion time is set.
C1_CompletedIffCompletedAt ==
    \A d \in DOMAIN packages :
        (packages[d].status = "completed") <=> (packages[d].completed_at # NULL)

C1_Witness ==
    \E d \in DOMAIN packages :
        /\ packages[d].status = "completed"
        /\ packages[d].completed_at # NULL
        /\ AuditCount(audit_logs, d, "document_distributed") > 0

\* C2: finalization runs at most once per document: no document ever has a second
\* document_completed record.
C2_FinalizedAtMostOnce ==
    \A d \in DOMAIN packages : AuditCount(audit_logs, d, "document_completed") <= 1

\* C3: in every reachable state, a field has at most one signature row.
C3_OneSignaturePerField ==
    \A f \in DOMAIN signatures : Len(signatures[f]) <= 1

\* C4: a document never passes through both cancelled and completed: no document
\* has both a document_cancelled and a document_completed record.
C4_CancelledXorCompleted ==
    \A d \in DOMAIN packages :
        ~ /\ AuditCount(audit_logs, d, "document_cancelled") > 0
          /\ AuditCount(audit_logs, d, "document_completed") > 0

C6_CompletesIffEverySignerSigned ==
    [][\A p \in Procs :
         req[p].pc = "check_all" /\ req'[p].pc # "check_all"
         => ((req'[p].pc = "final_load")
               <=> \A x \in DOMAIN recipients :
                      recipients[x].package_id = req[p].id /\ recipients[x].role = "signer"
                      => recipients[x].signing_status = "signed")]_vars

\* C6 amended: checkAndComplete completes the document exactly when the document
\* has at least one recipient with role signer and every such recipient has signed;
\* otherwise it leaves the document unchanged and returns false.  A document becomes
\* completed by no other step.
C6_CompletesIffSomeSignerAndAllSigned ==
    [][/\ \A p \in Procs :
            LET d == req[p].id
                signers == {x \in DOMAIN recipients :
                               recipients[x].package_id = d /\ recipients[x].role = "signer"}
                allSigned == \A x \in signers : recipients[x].signing_status = "signed"
            IN  /\ (req[p].pc = "check_all" /\ req'[p].pc # "check_all"
                      => IF signers # {} /\ allSigned
                         THEN req'[p].pc = "final_load"
                         ELSE /\ req'[p].pc = "done"
                              /\ ~req'[p].documentCompleted
                              /\ packages' = packages)
                /\ (req[p].pc = "flip" /\ req'[p].pc = "done"
                      => /\ signers # {}
                         /\ allSigned
                         /\ packages'[d].status = "completed"
                         /\ req'[p].documentCompleted)
       /\ \A d \in DOMAIN packages :
            packages[d].status # "completed" /\ packages'[d].status = "completed"
            => \E p \in Procs : req[p].pc = "flip" /\ req[p].id = d /\ req'[p].pc = "done"
      ]_vars

C6_Witness ==
    \E p \in Procs :
        /\ req[p].op = "complete"
        /\ req[p].pc = "done"
        /\ req[p].http = 200
        /\ ~req[p].documentCompleted
        /\ recipients[req[p].token].signing_status = "signed"
        /\ Signers(recipients, req[p].id) = {}
        /\ packages[req[p].id].status # "completed"

\* C10: a sign request by a field's recipient that arrives when the field has a
\* signature is answered 400 "Field has already been signed", and its handling
\* changes neither the signature rows nor the fields; a request by anybody else
\* for such a field is refused and changes nothing either.
C10_SignOnSignedFieldConflicts ==
    [][\A p \in Procs : \A f \in DOMAIN fields :
         /\ CanStart(p)
         /\ nreq' # nreq
         /\ req'[p].op = "sign"
         /\ req'[p].fieldId = f
         /\ Len(SignaturesOf(signatures, f)) > 0
         => /\ req'[p].pc = "done"
            /\ req'[p].http \in {400, 403, 404}
            /\ (req'[p].token = fields[f].recipient_id
                  => /\ req'[p].http = 400
                     /\ req'[p].error = "Field has already been signed")
            /\ signatures' = signatures
            /\ fields' = fields]_vars

C10_Witness ==
    \E p \in Procs :
        /\ req[p].op = "sign"
        /\ req[p].pc = "done"
        /\ req[p].http = 400
        /\ req[p].error = "Field has already been signed"
        /\ req[p].fieldId \in DOMAIN signatures
        /\ Len(signatures[req[p].fieldId]) = 1

\* C11: whenever no sign or unsign request is in progress, a field has a signature
\* row exactly when it is marked inserted and has a value.
C11_SignatureIffInsertedValue ==
    (\A p \in Procs : req[p].op \in {"sign", "unsign"} => req[p].pc = "done")
    => \A f \in DOMAIN fields :
          Len(SignaturesOf(signatures, f)) > 0
          <=> (fields[f].inserted /\ fields[f].value # NULL)

\* C12: an unsign request that arrives when its recipient's signing status is signed
\* is answered 400 "Cannot unsign after completing the signing session", whichever
\* field it names (signed, unsigned, somebody else's or unknown), and its handling
\* deletes no signature row and clears no field.
C12_UnsignAfterCompletionRefused ==
    [][\A p \in Procs :
         /\ CanStart(p)
         /\ nreq' # nreq
         /\ req'[p].op = "unsign"
         /\ req'[p].token \in DOMAIN recipients
         /\ recipients[req'[p].token].signing_status = "signed"
         => /\ req'[p].pc = "done"
            /\ req'[p].http = 400
            /\ req'[p].error = "Cannot unsign after completing the signing session"
            /\ signatures' = signatures
            /\ fields' = fields]_vars

C12_Witness ==
    \E p \in Procs :
        /\ req[p].op = "unsign"
        /\ req[p].pc = "done"
        /\ req[p].http = 400
        /\ req[p].error = "Cannot unsign after completing the signing session"
        /\ recipients[req[p].token].signing_status = "signed"
        /\ req[p].fieldId \in DOMAIN signatures
        /\ fields[req[p].fieldId].recipient_id = req[p].token

\* C13: a cancel request by the owner goes on to cancel the document only when it
\* finds the document pending, and the cancellation then sets the status to
\* cancelled; when it finds the document in draft, completed or cancelled it is
\* answered 400 with the status named and leaves the document as it was.
C13_CancelOnlyFromPending ==
    [][\A p \in Procs :
         /\ (/\ CanStart(p)
             /\ nreq' # nreq
             /\ req'[p].op = "cancel"
             /\ req'[p].id \in DOMAIN packages
             /\ packages[req'[p].id].owner_wallet_address = req'[p].walletAddress
             => IF packages[req'[p].id].status = "pending"
                THEN req'[p].pc = "cancel_update" /\ packages' = packages
                ELSE /\ req'[p].pc = "done"
                     /\ req'[p].http = 400
                     /\ req'[p].error = CannotCancel(packages[req'[p].id].status)
                     /\ packages' = packages)
         /\ (req[p].op = "cancel" /\ req'[p].pc = "done" /\ req'[p].http = 200
             /\ req'[p] # req[p]
             => /\ req[p].pc = "cancel_update"
                /\ req[p].id \in DOMAIN packages
                   => packages'[req[p].id].status = "cancelled")]_vars

C13_Witness ==
    \E p \in Procs :
        /\ req[p].op = "cancel"
        /\ req[p].pc = "done"
        /\ req[p].http = 400
        /\ req[p].id \in DOMAIN packages
        /\ packages[req[p].id].status = "completed"
        /\ req[p].error = CannotCancel("completed")

\* C22: a complete request whose finalization failed to render (the error is
\* caught in generateFinalDocument) is still answered 200; its recipient is, and
\* stays, signed, and the signing_completed audit row of the document is there.
C22_RenderFailureStillSucceeds ==
    \A p \in Procs :
        (req[p].op = "complete" /\ req[p].fin = "failed")
        => /\ req[p].pc \in {"flip", "done"}
           /\ req[p].pc = "done" => req[p].http = 200 /\ req[p].error = NULL
           /\ req[p].token \in DOMAIN recipients
           /\ recipients[req[p].token].signing_status = "signed"
           /\ AuditCount(audit_logs, recipients[req[p].token].package_id,
                         "signing_completed") >= 1

\* A complete request answered 200 after its render failed.
C22_Witness ==
    \E p \in Procs :
        /\ req[p].op = "complete" /\ req[p].pc = "done" /\ req[p].fin = "failed"
        /\ req[p].http = 200
        /\ recipients[req[p].token].signing_status = "signed"

\* C24: a document's status changes only from draft to pending, from pending to
\* completed and from pending to cancelled, whatever sign, unsign, complete,
\* distribute and cancel requests are issued.
C24_StatusTransitions ==
    [][\A d \in DOMAIN packages :
        (d \in DOMAIN packages' /\ packages'[d].status # packages[d].status)
        => <<packages[d].status, packages'[d].status>>
              \in {<<"draft", "pending">>, <<"pending", "completed">>,
                   <<"pending", "cancelled">>}]_vars

\* C25: sign, unsign and complete requests change rows of fields, signatures and
\* recipients only while the document they belong to is pending.
C25_SigningOnlyWhilePending ==
    [][(fields' # fields \/ signatures' # signatures \/ recipients' # recipients)
        => \A p \in Procs :
              (req[p].op \in {"sign", "unsign", "complete"} /\ req'[p] # req[p])
              => /\ req[p].token \in DOMAIN recipients
                 /\ packages[recipients[req[p].token].package_id].status = "pending"]_vars

\* C26: once a recipient's signing_status is signed, no step changes the value,
\* the inserted flag or the signatures rows of any field of that recipient.
C26_CompletionFreezesFields ==
    [][\A f \in DOMAIN fields :
        recipients[fields[f].recipient_id].signing_status = "signed"
        => /\ f \in DOMAIN fields'
           /\ fields'[f].value = fields[f].value
           /\ fields'[f].inserted = fields[f].inserted
           /\ SignaturesOf(signatures', f) = SignaturesOf(signatures, f)]_vars

----------------------------------------------------------------------------
(* Properties of paid creation, under SpecPay *)

\* C7: the facilitator is asked to verify before it is asked to settle, and to settle
\* only after it answered valid; the creation handler is reached only by a request
\* that presented a header and whose proof was verified valid and then settled; and
\* every document was paid for by its own settlement.
C7_CreatedOnlyAfterVerifyThenSettle ==
    /\ \A x \in DOMAIN facilitator :
         LET log == facilitator[x] IN
         /\ Len(log) <= 2
         /\ (Len(log) >= 1 => log[1].call = "verify")
         /\ (Len(log) = 2 => log[1].ok /\ log[2].call = "settle")
    /\ \A p \in Procs :
         /\ req[p].op = "create"
         /\ \/ req[p].pc = "create_rows"
            \/ /\ req[p].pc = "done"
               /\ req[p].http # 402
               /\ req[p].error # "Internal server error processing payment"
         => /\ req[p].header # NULL
            /\ Len(CallsOf(facilitator, req[p].proof)) = 2
            /\ CallsOf(facilitator, req[p].proof)[1].ok
            /\ CallsOf(facilitator, req[p].proof)[2].ok
    /\ \A d \in DOMAIN packages :
         \E x \in DOMAIN facilitator :
            /\ Len(facilitator[x]) = 2
            /\ facilitator[x][1].ok
            /\ facilitator[x][2].ok
            /\ facilitator[x][2].transaction = packages[d].payment_tx_hash
    /\ \A d, e \in DOMAIN packages :
         d # e => packages[d].payment_tx_hash # packages[e].payment_tx_hash

C7_Witness ==
    /\ \E d \in DOMAIN packages :
         \E x \in DOMAIN facilitator :
            /\ Len(facilitator[x]) = 2
            /\ facilitator[x][2].ok
            /\ facilitator[x][2].transaction = packages[d].payment_tx_hash
    /\ \E x \in DOMAIN facilitator : Len(facilitator[x]) = 1 /\ ~facilitator[x][1].ok
    /\ \E x \in DOMAIN facilitator : Len(facilitator[x]) = 2 /\ ~facilitator[x][2].ok

\* C8: a creation request that arrives without the payment header is answered at
\* once with 402 and the encoded challenge carrying the payment requirements; its
\* handling calls the facilitator not at all and writes no row of any table.
C8_NoHeaderChallengedWithoutEffects ==
    [][\A p \in Procs :
         /\ CanStart(p)
         /\ nreq' # nreq
         /\ req'[p].op = "create"
         /\ req'[p].header = NULL
         => /\ req'[p].pc = "done"
            /\ req'[p].http = 402
            /\ req'[p].paymentRequired = <<"base64", "json", buildPaymentRequired>>
            /\ buildPaymentRequired.accepts = <<buildPaymentRequirements>>
            /\ UNCHANGED <<packages, recipients, fields, signatures, audit_logs,
                           facilitator>>]_vars

C8_Witness ==
    \E p \in Procs :
        /\ req[p].op = "create"
        /\ req[p].pc = "done"
        /\ req[p].header = NULL
        /\ req[p].http = 402
        /\ req[p].paymentRequired # <<>>

\* C9: every finished creation request that presented a header and whose proof was
\* not accepted was answered 402 with a reason.
C9_RejectedProofAnswered402 ==
    \A p \in Procs :
        /\ req[p].op = "create"
        /\ req[p].pc = "done"
        /\ req[p].header # NULL
        /\ ~ /\ Len(CallsOf(facilitator, req[p].proof)) = 2
             /\ CallsOf(facilitator, req[p].proof)[2].ok
        => /\ req[p].http = 402
           /\ req[p].reason # NULL

----------------------------------------------------------------------------
(* Properties of a signing session, under SpecSign *)

\* C16: a sign request in the identity-verified (KYC) branch goes on to its writes
\* only when verifyKYCName confirmed the name; one answered "KYC verification
\* failed" is a 400 whose reason is the error verifyKYCName returned, and with it
\* no signatures row is created and no field changes.
C16_UnverifiedIdentityRefused ==
    [][\A p \in Procs :
        (CanStart(p) /\ nreq' # nreq /\ req'[p].op = "sign")
        => /\ (/\ req'[p].pc = "sign_write1"
               /\ req'[p].fieldType \in {"signature", "free-signature", "initial"}
               /\ Truthy(req'[p].body.kycNftAddress)
               /\ Truthy(req'[p].body.verifiedName))
              => req'[p].verification.verified
           /\ req'[p].error = "KYC verification failed"
              => /\ req'[p].pc = "done"
                 /\ req'[p].http = 400
                 /\ ~req'[p].verification.verified
                 /\ req'[p].reason # NULL
                 /\ req'[p].reason = req'[p].verification.error
                 /\ signatures' = signatures
                 /\ fields' = fields]_vars

\* A KYC sign request refused because the name is not on the NFT it named; its
\* field has no signature and is not filled.
C16_Witness ==
    \E p \in Procs :
        /\ req[p].op = "sign"
        /\ req[p].error = "KYC verification failed"
        /\ req[p].reason = "Name does not match the specified KYC NFT"
        /\ req[p].fieldId \in DOMAIN fields
        /\ Len(SignaturesOf(signatures, req[p].fieldId)) = 0
        /\ ~fields[req[p].fieldId].inserted

\* C20: POST /:token/complete examines exactly the recipient's required fields
\* (signature-class type, or field_meta.required), each once, and lists a field
\* iff it has no signatures row when examined; the recipient is set to signed
\* only by a request whose list stayed empty; a request with a non-empty list is
\* answered 400 "Not all required fields are signed" and neither the recipient
\* nor the document changes.
C20_CompleteNeedsRequiredFields ==
    [][/\ \A p \in Procs :
            (/\ CanStart(p) /\ nreq' # nreq /\ req'[p].op = "complete"
             /\ req'[p].token \in DOMAIN recipients)
            => LET required ==
                     {f \in DOMAIN fields :
                         /\ fields[f].recipient_id = req'[p].token
                         /\ \/ fields[f].field_type \in {"signature", "free-signature", "initial"}
                            \/ fields[f].required}
               IN IF required = {}
                  THEN req'[p].pc = "complete_update"
                  ELSE /\ req'[p].pc = "complete_fields"
                       /\ {req'[p].todo[i] : i \in 1..Len(req'[p].todo)} = required
                       /\ Len(req'[p].todo) = Cardinality(required)
                       /\ req'[p].unsignedRequired = <<>>
       /\ \A p \in Procs :
            (req[p].pc = "complete_fields" /\ req'[p] # req[p])
            => LET f == Head(req[p].todo)
                   listed == IF Len(SignaturesOf(signatures, f)) = 0
                             THEN Append(req[p].unsignedRequired, f)
                             ELSE req[p].unsignedRequired
               IN /\ req'[p].unsignedRequired = listed
                  /\ req'[p].pc = "complete_fields" => req'[p].todo = Tail(req[p].todo)
                  /\ req'[p].pc = "complete_update"
                        => Tail(req[p].todo) = <<>> /\ listed = <<>>
                  /\ req'[p].pc = "done"
                        => /\ Tail(req[p].todo) = <<>> /\ listed # <<>>
                           /\ req'[p].http = 400
                           /\ req'[p].error = "Not all required fields are signed"
                           /\ recipients' = recipients
                           /\ packages' = packages
                  /\ req'[p].pc \in {"complete_fields", "complete_update", "done"}
       /\ \A t \in DOMAIN recipients :
            (/\ t \in DOMAIN recipients'
             /\ recipients'[t].signing_status = "signed"
             /\ recipients[t].signing_status # "signed")
            => \E p \in Procs : /\ req[p].pc = "complete_update"
                                /\ req[p].token = t
                                /\ req[p].unsignedRequired = <<>>
                                /\ req[p].todo = <<>>]_vars

\* Completion refused with exactly the required text field listed: the signature
\* field is signed, the optional text field is unsigned and not listed.
C20_Witness ==
    \E p \in Procs :
        /\ req[p].op = "complete" /\ req[p].pc = "done"
        /\ req[p].http = 400
        /\ req[p].unsignedRequired = <<2>>
        /\ Len(SignaturesOf(signatures, 1)) > 0
        /\ Len(SignaturesOf(signatures, 3)) = 0
        /\ recipients[req[p].token].signing_status = "pending"
        /\ packages[1].status = "pending"

----------------------------------------------------------------------------
(* Properties of document management, under SpecDoc *)

\* C14: a cancel or delete request whose walletAddress is not the document's
\* owner_wallet_address is answered 403 "Not authorized to ..." and no table
\* changes; only a request of the owner gets to the handler's writes.
C14_OnlyOwnerCancelsOrDeletes ==
    [][\A p \in Procs :
        /\ (/\ CanStart(p) /\ nreq' # nreq
            /\ req'[p].op \in {"cancel", "delete"}
            /\ req'[p].id \in DOMAIN packages
            /\ packages[req'[p].id].owner_wallet_address # req'[p].walletAddress)
           => /\ req'[p].pc = "done"
              /\ req'[p].http = 403
              /\ req'[p].error = (IF req'[p].op = "cancel"
                                  THEN "Not authorized to cancel this document"
                                  ELSE "Not authorized to delete this document")
              /\ UNCHANGED <<packages, recipients, fields, signatures, audit_logs>>
        /\ (/\ req[p].op \in {"cancel", "delete"}
            /\ req[p].pc \notin {"idle", "done"}
            /\ req[p].id \in DOMAIN packages)
           => packages[req[p].id].owner_wallet_address = req[p].walletAddress]_vars

\* A stranger's cancel and a stranger's delete, both answered 403, with the
\* document and its rows in place.
C14_Witness ==
    \E p, q \in Procs :
        /\ req[p].op = "cancel" /\ req[p].http = 403 /\ req[p].walletAddress = "0xb0b"
        /\ req[q].op = "delete" /\ req[q].http = 403 /\ req[q].walletAddress = "0xb0b"
        /\ 1 \in DOMAIN packages
        /\ packages[1].status = "pending"
        /\ DOMAIN recipients = {1, 2}

\* C15: distribute of a draft with no recipient is answered 400 "Document must
\* have at least one recipient"; with a signer who has no field it is answered
\* 400 naming such a signer (message and recipientId); either way the package is
\* unchanged.  Otherwise it goes on to set the status to pending and its 200
\* carries one signing link per recipient read, the i-th built from the i-th
\* recipient's token.
C15_DistributeNeedsFields ==
    [][\A p \in Procs :
        /\ (/\ CanStart(p) /\ nreq' # nreq
            /\ req'[p].op = "distribute"
            /\ req'[p].id \in DOMAIN packages
            /\ packages[req'[p].id].status = "draft")
           => LET rs == {x \in DOMAIN recipients : recipients[x].package_id = req'[p].id}
                  bare == {x \in rs :
                             /\ recipients[x].role = "signer"
                             /\ ~\E f \in DOMAIN fields : fields[f].recipient_id = x}
              IN /\ packages' = packages
                 /\ IF rs = {}
                    THEN /\ req'[p].pc = "done" /\ req'[p].http = 400
                         /\ req'[p].error = "Document must have at least one recipient"
                    ELSE IF bare # {}
                    THEN /\ req'[p].pc = "done" /\ req'[p].http = 400
                         /\ req'[p].recipientId \in bare
                         /\ req'[p].error = "Signer \"" \o ToString(req'[p].recipientId)
                                                \o "\" has no fields assigned"
                    ELSE /\ req'[p].pc = "distribute_update"
                         /\ Len(req'[p].docRecipients) = Cardinality(rs)
                         /\ {req'[p].docRecipients[i] : i \in 1..Cardinality(rs)} = rs
        /\ (/\ req[p].op = "distribute" /\ req[p].pc # "done"
            /\ req'[p].pc = "done" /\ req'[p].http = 200)
           => /\ req[p].pc = "distribute_update"
              /\ req[p].id \in DOMAIN packages
                    => /\ req[p].id \in DOMAIN packages'
                       /\ packages'[req[p].id].status = "pending"
              /\ Len(req'[p].signingLinks) = Len(req[p].docRecipients)
              /\ \A i \in 1..Len(req[p].docRecipients) :
                    /\ req'[p].signingLinks[i].key = "recipient_" \o ToString(i)
                    /\ req'[p].signingLinks[i].url =
                          "FRONTEND_URL/sign/" \o ToString(req[p].docRecipients[i])]_vars

\* One distribute refused for signer 2, who had no field, and, once the field was
\* added, one answered 200 with the links of both recipients.
C15_Witness ==
    \E p, q \in Procs :
        /\ req[p].op = "distribute" /\ req[p].http = 400 /\ req[p].recipientId = 2
        /\ req[q].op = "distribute" /\ req[q].http = 200
        /\ Len(req[q].signingLinks) = 2
        /\ req[q].signingLinks[2].url = "FRONTEND_URL/sign/2"
        /\ 1 \in DOMAIN packages /\ packages[1].status = "pending"

\* C17: once a delete request was answered 200, no recipient and no field has the
\* document's id as package_id, every signatures row belongs to a field there is
\* (of another document) and to a recipient there is, the package row is gone,
\* and no audit row has the id as package_id.
C17_NothingLeftAfterDelete ==
    \A p \in Procs :
        (req[p].op = "delete" /\ req[p].pc = "done" /\ req[p].http = 200)
        => LET d == req[p].id IN
           /\ d \notin DOMAIN packages
           /\ \A x \in DOMAIN recipients : recipients[x].package_id # d
           /\ \A f \in DOMAIN fields : fields[f].package_id # d
           /\ \A f \in DOMAIN signatures :
                 /\ f \in DOMAIN fields
                 /\ fields[f].package_id # d
                 /\ \A i \in 1..Len(signatures[f]) :
                       signatures[f][i].recipient_id \in DOMAIN recipients
           /\ d \notin DOMAIN audit_logs

\* Document 1 deleted after a field of it was signed: the sign request and the
\* delete request were both answered 200.
C17_Witness ==
    \E p, q \in Procs :
        /\ req[p].op = "delete" /\ req[p].pc = "done" /\ req[p].http = 200
        /\ req[p].id = 1
        /\ req[q].op = "sign" /\ req[q].pc = "done" /\ req[q].http = 200
        /\ req[q].fieldId = 1

\* C18: an owner's delete of a document that is neither draft nor cancelled is
\* answered 400 and changes nothing, and no row of a document (package, recipient,
\* field, signature, audit row) is removed while the document is pending or
\* completed, whatever requests run at the same time.
C18_RemovedOnlyDraftOrCancelled ==
    [][/\ \A p \in Procs :
            (/\ CanStart(p) /\ nreq' # nreq /\ req'[p].op = "delete"
             /\ req'[p].id \in DOMAIN packages
             /\ packages[req'[p].id].owner_wallet_address = req'[p].walletAddress
             /\ packages[req'[p].id].status \in {"pending", "completed"})
            => /\ req'[p].pc = "done" /\ req'[p].http = 400
               /\ UNCHANGED <<packages, recipients, fields, signatures, audit_logs>>
       /\ \A d \in DOMAIN packages :
            (\/ d \notin DOMAIN packages'
             \/ \E x \in DOMAIN recipients \ DOMAIN recipients' :
                    recipients[x].package_id = d
             \/ \E f \in DOMAIN fields \ DOMAIN fields' : fields[f].package_id = d
             \/ \E f \in DOMAIN signatures \ DOMAIN signatures' :
                    f \in DOMAIN fields /\ fields[f].package_id = d
             \/ d \in DOMAIN audit_logs \ DOMAIN audit_logs')
            => packages[d].status \in {"draft", "cancelled"}]_vars

\* C19: addFields on a document that is not draft is answered 400 and creates
\* nothing, and no field is ever inserted for a document that is pending,
\* completed or cancelled, whatever requests run at the same time.
C19_FieldsAddedOnlyToDraft ==
    [][/\ \A p \in Procs :
            (/\ CanStart(p) /\ nreq' # nreq /\ req'[p].op = "addFields"
             /\ req'[p].id \in DOMAIN packages
             /\ packages[req'[p].id].status # "draft")
            => /\ req'[p].pc = "done" /\ req'[p].http = 400
               /\ req'[p].error = "Cannot modify fields on a non-draft document"
               /\ fields' = fields
       /\ \A f \in DOMAIN fields' \ DOMAIN fields :
            /\ fields'[f].package_id \in DOMAIN packages
            /\ packages[fields'[f].package_id].status = "draft"]_vars

----------------------------------------------------------------------------
(* Properties of two signers finishing, under SpecFinish *)

\* C21: on the pending document nobody cancels, once every recipient with role
\* signer has signing_status signed the document's status becomes completed, in
\* whatever order the steps of the complete requests are taken; and a complete
\* request that reaches checkAndCompleteDocument when every signer is signed is
\* answered with documentCompleted true.
C21_AllSignedLeadsToCompleted ==
    /\ (\A x \in DOMAIN recipients :
            recipients[x].role = "signer" => recipients[x].signing_status = "signed")
       ~> (packages[1].status = "completed")
    /\ \A p \in Procs :
         (/\ req[p].op = "complete" /\ req[p].pc = "check_all"
          /\ \A x \in DOMAIN recipients :
                recipients[x].role = "signer" => recipients[x].signing_status = "signed")
         ~> (/\ req[p].op = "complete" /\ req[p].pc = "done"
             /\ req[p].http = 200 /\ req[p].documentCompleted
             /\ packages[1].status = "completed")

\* Signer 1's complete was answered documentCompleted false while signer 2 was
\* still signing; signer 2's, the last, was answered true and the document is
\* completed.
C21_Witness ==
    \E p, q \in Procs :
        /\ req[q].op = "complete" /\ req[q].pc = "done" /\ req[q].token = 1
        /\ req[q].http = 200 /\ ~req[q].documentCompleted
        /\ req[p].op = "complete" /\ req[p].pc = "done" /\ req[p].token = 2
        /\ req[p].http = 200 /\ req[p].documentCompleted
        /\ packages[1].status = "completed"
        /\ \A x \in DOMAIN recipients : recipients[x].signing_status = "signed"

\* C23: a download request is answered with bytes only when the document is
\* completed and has document_data, and then with those bytes; for a document in
\* any other status it is answered 404.
C23_DownloadOnlyCompleted ==
    [][\A p \in Procs :
        (/\ CanStart(p) /\ nreq' # nreq /\ req'[p].op = "download"
         /\ req'[p].id \in DOMAIN packages)
        => IF /\ packages[req'[p].id].status = "completed"
              /\ packages[req'[p].id].document_data # NoData
           THEN /\ req'[p].http = 200
                /\ req'[p].doc_data = packages[req'[p].id].document_data
           ELSE /\ req'[p].http = 404
                /\ req'[p].doc_data = NoData]_vars

----------------------------------------------------------------------------
(* Properties of two drafts, under SpecTwo *)

\* C27: in every reachable state, the recipient_id of every field names a
\* recipient whose package_id is the field's package_id.
C27_FieldRecipientSameDocument ==
    \A f \in DOMAIN fields :
        /\ fields[f].recipient_id \in DOMAIN recipients
        /\ recipients[fields[f].recipient_id].package_id = fields[f].package_id

----------------------------------------------------------------------------
(* Properties of signing with every payload, under SpecModes *)

\* C28: a sign or unsign request with an unknown token, an unknown field, a field
\* of another recipient or (sign) a field that has a signatures row is refused
\* with 404, 403 or 400; a sign request that gets past these has a signing mode
\* (signature field; in the identity-verified mode, a confirmed name) or a value
\* (other field); and a refused request leaves the fields, the signatures and
\* the audit rows as they were.
C28_FailedSignChangesNothing ==
    [][\A p \in Procs :
        (CanStart(p) /\ nreq' # nreq /\ req'[p].op \in {"sign", "unsign"})
        => LET r == req'[p]
               refused ==
                 \/ r.token \notin DOMAIN recipients
                 \/ r.fieldId \notin DOMAIN fields
                 \/ fields[r.fieldId].recipient_id # r.token
                 \/ r.op = "sign" /\ Len(SignaturesOf(signatures, r.fieldId)) > 0
           IN /\ refused => r.pc = "done"
              /\ r.pc = "done"
                    => /\ r.http \in {400, 403, 404}
                       /\ r.error \in {"Invalid signing token", "Field not found",
                                        "Field does not belong to this recipient",
                                        "Field has already been signed",
                                        NoSignatureDataError,
                                        "value is required for this field type",
                                        "KYC verification failed",
                                        "Cannot unsign after completing the signing session"}
                       /\ UNCHANGED <<fields, signatures, audit_logs>>
              /\ (r.pc # "done" /\ r.op = "sign")
                    => IF fields[r.fieldId].field_type
                             \in {"signature", "free-signature", "initial"}
                       THEN \/ /\ r.body.kycNftAddress # NULL /\ r.body.verifiedName # NULL
                               /\ r.verification.verified
                            \/ /\ ~(r.body.kycNftAddress # NULL /\ r.body.verifiedName # NULL)
                               /\ \/ /\ r.body.walletSignature # NULL
                                     /\ r.body.walletAddress # NULL
                                     /\ r.body.documentHash # NULL
                                  \/ r.body.typedSignature # NULL
                                  \/ r.body.signatureImage # NULL
                       ELSE r.body.value # NULL]_vars

\* Recipient 2's sign request for signer 1's field, refused with 403; the field
\* is unsigned and no field_signed row was written.
C28_Witness ==
    \E p \in Procs :
        /\ req[p].op = "sign" /\ req[p].pc = "done" /\ req[p].http = 403
        /\ req[p].token = 2 /\ req[p].fieldId = 1
        /\ ~fields[1].inserted
        /\ Len(SignaturesOf(signatures, 1)) = 0
        /\ AuditCount(audit_logs, 1, "field_signed") = 0

\* C29: the signatures row inserted for a signature field, and the value then
\* written to the field, are those of the first of identity-verified (credential
\* and name), wallet (signature, address and digest), typed, drawn whose parts
\* are all in the body: the identity row has the verified name (and the wallet
\* signature if sent) and the value "[KYC: <name>]"; the wallet row only the
\* wallet signature, the value the shortened address; the typed row only the
\* typed text, which is the value; the drawn row only the image, the value
\* "[signature image]".
C29_ModePrecedence ==
    [][\A p \in Procs :
        (/\ req[p].op = "sign" /\ req[p].pc \in {"sign_write1", "sign_write2"}
         /\ req'[p] # req[p]
         /\ req[p].fieldType \in {"signature", "free-signature", "initial"})
        => LET b == req[p].body
               f == req[p].fieldId
               kyc == b.kycNftAddress # NULL /\ b.verifiedName # NULL
               wallet == b.walletSignature # NULL /\ b.walletAddress # NULL
                            /\ b.documentHash # NULL
               typed == b.typedSignature # NULL
               row == [recipient_id |-> req[p].token,
                       signature_image |->
                           IF ~kyc /\ ~wallet /\ ~typed THEN b.signatureImage ELSE NULL,
                       typed_signature |->
                           IF ~kyc /\ ~wallet /\ typed THEN b.typedSignature ELSE NULL,
                       kyc_verified_name |-> IF kyc THEN b.verifiedName ELSE NULL,
                       wallet_signature |->
                           IF kyc \/ wallet THEN b.walletSignature ELSE NULL]
               text == IF kyc THEN "[KYC: " \o b.verifiedName \o "]"
                       ELSE IF wallet THEN "[Wallet: 0xa11c...11ce]"
                       ELSE IF typed THEN b.typedSignature
                       ELSE "[signature image]"
           IN IF req[p].pc = "sign_write1"
              THEN signatures' = [signatures EXCEPT ![f] = <<row>>]
                   \/ (f \notin DOMAIN signatures /\ signatures' = signatures @@ (f :> <<row>>))
              ELSE /\ fields'[f].value = text
                   /\ fields'[f].inserted]_vars

\* A body with every part, being signed in the identity-verified mode: the row
\* carries the verified name and no typed text or image.
C29_Witness ==
    \E p \in Procs :
        /\ req[p].op = "sign" /\ req[p].pc = "sign_write2" /\ req[p].fieldId = 1
        /\ req[p].body.kycNftAddress # NULL /\ req[p].body.verifiedName # NULL
        /\ req[p].body.walletSignature # NULL /\ req[p].body.walletAddress # NULL
        /\ req[p].body.documentHash # NULL
        /\ req[p].body.typedSignature # NULL /\ req[p].body.signatureImage # NULL
        /\ Len(SignaturesOf(signatures, 1)) = 1
        /\ signatures[1][1].kyc_verified_name = "Alice"
        /\ signatures[1][1].typed_signature = NULL
        /\ signatures[1][1].signature_image = NULL

\* C30: a sign request for a field that is not of a signature type, with any
\* value in its body (the empty string and zero among them), gets to its writes,
\* stores the value as the field's value and inserts a signatures row whose
\* typed_signature is that value; only a body without value is refused.
C30_ValueRecordedVerbatim ==
    [][\A p \in Procs :
        /\ (/\ CanStart(p) /\ nreq' # nreq /\ req'[p].op = "sign"
            /\ req'[p].token \in DOMAIN recipients
            /\ req'[p].fieldId \in DOMAIN fields
            /\ fields[req'[p].fieldId].recipient_id = req'[p].token
            /\ fields[req'[p].fieldId].field_type = "text"
            /\ Len(SignaturesOf(signatures, req'[p].fieldId)) = 0)
           => (req'[p].pc = "done" <=> req'[p].body.value = NULL)
        /\ (/\ req[p].op = "sign" /\ req[p].fieldType = "text"
            /\ req[p].pc = "sign_write1" /\ req'[p] # req[p])
           => /\ fields'[req[p].fieldId].value = req[p].body.value
              /\ fields'[req[p].fieldId].inserted
        /\ (/\ req[p].op = "sign" /\ req[p].fieldType = "text"
            /\ req[p].pc = "sign_write2" /\ req'[p] # req[p])
           => /\ req'[p].http = 200
              /\ Len(SignaturesOf(signatures', req[p].fieldId))
                    = Len(SignaturesOf(signatures, req[p].fieldId)) + 1
              /\ signatures'[req[p].fieldId][Len(signatures'[req[p].fieldId])]
                    .typed_signature = req[p].body.value]_vars

\* C31: every signatures row has exactly one of signature_image and
\* typed_signature, whichever branch of the sign handler inserted it.
C31_ExactlyOneOfImageAndTyped ==
    \A f \in DOMAIN signatures :
        \A i \in 1..Len(signatures[f]) :
            (signatures[f][i].signature_image # NULL)
                <=> (signatures[f][i].typed_signature = NULL)

\* C32: an unsign request of a recipient who has not completed, for one of the
\* recipient's fields, is let through whether or not the field has a signature;
\* when it ends it is answered 200 and the field has no signatures row, value
\* NULL and inserted FALSE, its other columns as they were.
C32_UnsignResetsField ==
    [][\A p \in Procs :
        /\ (/\ CanStart(p) /\ nreq' # nreq /\ req'[p].op = "unsign"
            /\ req'[p].token \in DOMAIN recipients
            /\ recipients[req'[p].token].signing_status # "signed"
            /\ req'[p].fieldId \in DOMAIN fields
            /\ fields[req'[p].fieldId].recipient_id = req'[p].token)
           => req'[p].pc = "unsign_delete"
        /\ (req[p].op = "unsign" /\ req[p].pc = "unsign_clear" /\ req'[p] # req[p])
           => /\ req'[p].pc = "done" /\ req'[p].http = 200
              /\ Len(SignaturesOf(signatures', req[p].fieldId)) = 0
              /\ fields'[req[p].fieldId]
                    = [fields[req[p].fieldId] EXCEPT !.value = NULL, !.inserted = FALSE]
              /\ fields'[req[p].fieldId].value = NULL
              /\ ~fields'[req[p].fieldId].inserted]_vars

\* Field 1 after a sign and two unsigns, all answered 200: three field_signed
\* rows, no signatures row, the field unsigned.
C32_Witness ==
    \E p \in Procs :
        /\ req[p].op = "unsign" /\ req[p].pc = "done" /\ req[p].http = 200
        /\ req[p].fieldId = 1
        /\ AuditCount(audit_logs, 1, "field_signed") = 3
        /\ ~fields[2].inserted /\ Len(SignaturesOf(signatures, 2)) = 0
        /\ Len(SignaturesOf(signatures, 1)) = 0
        /\ fields[1].value = NULL /\ ~fields[1].inserted

----------------------------------------------------------------------------
(* Further properties of managing a draft, under SpecDoc *)

----------------------------------------------------------------------------
(* Further properties of paid creation, under SpecPay *)

\* C34: after a creation request was answered 500 'Failed to create document',
\* no package, recipient, field or audit row of that creation is in the store.
C34_FailedCreationLeavesNothing ==
    \A p \in Procs :
        (req[p].pc = "done" /\ req[p].error = "Failed to create document")
        => /\ req[p].id \notin DOMAIN packages
           /\ \A x \in DOMAIN recipients : recipients[x].package_id # req[p].id
           /\ \A f \in DOMAIN fields : fields[f].package_id # req[p].id
           /\ req[p].id \notin DOMAIN audit_logs

----------------------------------------------------------------------------
(* Further properties of managing a draft, under SpecDoc (authorization) *)

\* C35: the answer to a cancel or delete request for an existing document from a
\* wallet that is not its owner is determined by the request alone: 403 with the
\* fixed text of the operation, whatever the status, the recipients and the
\* fields of the document; and the store is left as it was.
C35_NonOwnerAnswerIndependentOfState ==
    [][\A p \in Procs :
        (/\ CanStart(p) /\ nreq' # nreq /\ req'[p].op \in {"cancel", "delete"}
         /\ req'[p].id \in DOMAIN packages
         /\ packages[req'[p].id].owner_wallet_address # req'[p].walletAddress)
        => /\ req'[p] = Respond([Idle EXCEPT !.op = req'[p].op, !.id = req'[p].id,
                                             !.walletAddress = req'[p].walletAddress],
                                403,
                                IF req'[p].op = "cancel"
                                THEN "Not authorized to cancel this document"
                                ELSE "Not authorized to delete this document")
           /\ UNCHANGED <<packages, recipients, fields, signatures, audit_logs>>]_vars

\* The owner distributed and cancelled document 1; wallet 0xb0b's cancel and
\* delete were both answered 403.
C35_Witness ==
    \E p, q \in Procs :
        /\ req[p].op = "cancel" /\ req[p].pc = "done" /\ req[p].http = 403
        /\ req[p].error = "Not authorized to cancel this document"
        /\ req[q].op = "delete" /\ req[q].pc = "done" /\ req[q].http = 403
        /\ req[q].error = "Not authorized to delete this document"
        /\ 1 \in DOMAIN packages /\ packages[1].status = "cancelled"
        /\ AuditCount(audit_logs, 1, "document_cancelled") = 1

----------------------------------------------------------------------------
(* Further properties of signing with every payload, under SpecModes *)

\* C36: a sign request in the identity-verified branch whose chain query threw
\* is answered 400 "KYC verification failed" with the reason "No KYC NFTs found
\* for this wallet" (the lookup gave the empty list), and the store is as it was;
\* the next request of the same token for the same field with the parts of the
\* wallet, typed or drawn mode (and not those of the identity-verified mode)
\* gets to its writes.
C36_OracleErrorDoesNotBlockSigning ==
    [][\A p \in Procs :
        (CanStart(p) /\ nreq' # nreq /\ req'[p].op = "sign")
        => /\ req'[p].oracle = "error"
              => /\ req'[p].pc = "done" /\ req'[p].http = 400
                 /\ req'[p].error = "KYC verification failed"
                 /\ req'[p].reason = "No KYC NFTs found for this wallet"
                 /\ ~req'[p].verification.verified
                 /\ UNCHANGED <<packages, recipients, fields, signatures, audit_logs>>
           /\ (/\ req[p].oracle = "error"
               /\ req'[p].token = req[p].token /\ req'[p].fieldId = req[p].fieldId
               /\ ~(req'[p].body.kycNftAddress # NULL /\ req'[p].body.verifiedName # NULL)
               /\ \/ /\ req'[p].body.walletSignature # NULL
                      /\ req'[p].body.walletAddress # NULL
                      /\ req'[p].body.documentHash # NULL
                  \/ req'[p].body.typedSignature # NULL
                  \/ req'[p].body.signatureImage # NULL)
              => req'[p].pc = "sign_write1"]_vars

\* An identity-verified sign request for field 1 refused because the chain query
\* threw; field 1 has no signature.
C36_Witness ==
    \E p \in Procs :
        /\ req[p].op = "sign" /\ req[p].pc = "done" /\ req[p].http = 400
        /\ req[p].oracle = "error"
        /\ req[p].token = 1 /\ req[p].fieldId = 1
        /\ Len(SignaturesOf(signatures, 1)) = 0
        /\ ~fields[1].inserted

----------------------------------------------------------------------------
(* Further properties of paid creation, under SpecPay (settlement) *)

\* C37: the step in which the facilitator settles a payment inserts exactly one
\* package row, and the request is not answered 400: no payment is settled for
\* a body the creation handler's validation rejects.
C37_SettledMeansCreated ==
    [][\A p \in Procs :
        (req[p].pc = "settle" /\ req'[p] # req[p]
         /\ Settled(facilitator') # Settled(facilitator))
        => /\ DOMAIN packages' = DOMAIN packages \cup {NewId(packages)}
           /\ NewId(packages) \notin DOMAIN packages
           /\ req'[p].http # 400]_vars

----------------------------------------------------------------------------
(* Further properties of the signing flow, under Spec *)

\* C38: while a package is completed, each of its signers has signing_status
\* signed and each required field of those signers has a signatures row.
C38_CompletedMeansAllSigned ==
    \A d \in DOMAIN packages :
        packages[d].status = "completed"
        => \A x \in Signers(recipients, d) :
              /\ recipients[x].signing_status = "signed"
              /\ \A f \in DOMAIN fields :
                    (fields[f].recipient_id = x /\ isRequiredField(fields[f]))
                    => Len(SignaturesOf(signatures, f)) > 0

\* C39: a complete request that reaches its update for a recipient who is signed
\* already leaves the recipient's row as it is and appends no signing_completed
\* audit row.
C39_CompletionRecordedOnce ==
    [][\A p \in Procs :
        (/\ req[p].op = "complete" /\ req[p].pc = "complete_update"
         /\ req'[p] # req[p]
         /\ recipients[req[p].token].signing_status = "signed")
        => /\ recipients'[req[p].token] = recipients[req[p].token]
           /\ AuditCount(audit_logs', recipients[req[p].token].package_id,
                         "signing_completed")
                = AuditCount(audit_logs, recipients[req[p].token].package_id,
                             "signing_completed")]_vars

----------------------------------------------------------------------------
(* Properties of creating and then managing, under SpecOwn *)

\* C40: every package was paid for by a settlement of the facilitator whose
\* transaction is its payment_tx_hash, and its owner_wallet_address is the payer
\* the facilitator named for that payment; and a cancel or delete request that
\* is let through to its writes names that payer as its walletAddress.
C40_OwnerIsSettledPayer ==
    [][/\ \A d \in DOMAIN packages' :
            \E x \in Settled(facilitator') :
                /\ facilitator'[x][Len(facilitator'[x])].transaction
                      = packages'[d].payment_tx_hash
                /\ packages'[d].owner_wallet_address = SignerOf(x)
       /\ \A p \in Procs :
            (/\ CanStart(p) /\ nreq' # nreq /\ req'[p].op \in {"cancel", "delete"}
             /\ req'[p].pc # "done")
            => /\ req'[p].id \in DOMAIN packages
               /\ \E x \in Settled(facilitator) :
                     /\ facilitator[x][Len(facilitator[x])].transaction
                           = packages[req'[p].id].payment_tx_hash
                     /\ req'[p].walletAddress = SignerOf(x)]_vars

\* The document paid for with the second proof, whose payer is 0xb0b, cancelled
\* by a request of 0xb0b.
C40_Witness ==
    \E p \in Procs : \E d \in DOMAIN packages :
        /\ req[p].op = "cancel" /\ req[p].pc = "done" /\ req[p].http = 200
        /\ req[p].id = d /\ req[p].walletAddress = "0xb0b"
        /\ packages[d].status = "cancelled"
        /\ packages[d].owner_wallet_address = "0xb0b"
        /\ 2 \in Settled(facilitator)
        /\ facilitator[2][2].transaction = packages[d].payment_tx_hash

====
